---- MODULE Spec2Model ----
(***************************************************************************)
(* Model of the ESG material export (pyrevit_export_materials.extension,   *)
(* "Generate Material List" push button): the parameter resolver           *)
(* get_parameter_value_comprehensive, the number formatter format_number   *)
(* and the MaterialDataExtractor that flattens model elements into         *)
(* Records.                                                                *)
(*                                                                         *)
(* Python values are tagged records:                                       *)
(*   [py |-> "None"]                         None                          *)
(*   [py |-> "str", text |-> s]              a str that is not a numeral   *)
(*   [py |-> "str", chars |-> <<c1, ...>>]   a str held character by       *)
(*                                           character (numerals)          *)
(*   [py |-> "int", n |-> k]                 an int                        *)
(*   [py |-> "float", n |-> k, p |-> d]      the float k / 10^d            *)
(*   [py |-> "raise"]                        the call raised an exception  *)
(***************************************************************************)
EXTENDS Integers, Sequences, FiniteSets, TLC

VARIABLES
    \* format_number under test: its arguments, its result, and the result of
    \* formatting that result again
    fmt_value, fmt_decimals, fmt_result, fmt_again,
    \* get_parameter_value_comprehensive under test: arguments and result
    \* (res_enum: the names the host's BuiltInParameter enum defines)
    \* (res_call: which resolver was called)
    res_element, res_builtin, res_unit, res_fallback, res_enum, res_call, res_result,
    \* MaterialDataExtractor: the element collection, the loop position,
    \* the accumulated Records, the counters, the last _process_element result
    elements, pos, material_usage_data, processed_elements, material_records,
    debug_info, element_data, pc,
    \* save_to_csv: the rows written and the (path, count) it returns
    normalized_data, save_result,
    \* the file at the destination, the text of main's
    \* error dialog, and for a second call of extract_all_materials its
    \* number and the Records of the first call
    csvfile, error_msg, run, first_data,
    \* the titles of the outcome dialogs main has shown
    dialogs,
    \* export_material_list: the document, the Python engine, the position in
    \* the loops, the rows collected, the file and what is returned or raised
    lst_elements, lst_engine, lst_pc, lst_pos, lst_rows, lst_file, lst_result,
    \* its main: the answer to the confirmation dialog and the titles of the
    \* dialogs shown after it
    lst_answer, lst_dialogs

fmt_vars == <<fmt_value, fmt_decimals, fmt_result, fmt_again>>
res_vars == <<res_element, res_builtin, res_unit, res_fallback, res_enum, res_call,
              res_result>>
ext_vars == <<elements, pos, material_usage_data, processed_elements,
              material_records, debug_info, element_data, pc, normalized_data,
              save_result>>
exp_vars == <<csvfile, error_msg, run, first_data, dialogs>>
lst_vars == <<lst_elements, lst_engine, lst_pc, lst_pos, lst_rows, lst_file, lst_result,
              lst_answer, lst_dialogs>>
vars == <<fmt_vars, res_vars, ext_vars, exp_vars, lst_vars>>

----------------------------------------------------------------------------
(* Python values *)

None == [py |-> "None"]
Raised == [py |-> "raise"]
Txt(s) == [py |-> "str", text |-> s]
Chars(cs) == [py |-> "str", chars |-> cs]
PyInt(k) == [py |-> "int", n |-> k]
Float(k, d) == [py |-> "float", n |-> k, p |-> d]
NA == Txt("N/A")
Pending == [py |-> "pending"]

IsFloat(v) == v.py = "float"
IsCharStr(v) == v.py = "str" /\ "chars" \in DOMAIN v

\* F applied to the value of v, with v evaluated once
Bind(v, F(_)) == CHOOSE r \in {F(x) : x \in {v}} : TRUE

Digit == <<"0", "1", "2", "3", "4", "5", "6", "7", "8", "9">>
DigitSet == {Digit[k] : k \in 1..10}

RECURSIVE Pow10(_)
Pow10(k) == IF k = 0 THEN 1 ELSE 10 * Pow10(k - 1)

Abs(k) == IF k < 0 THEN -k ELSE k

RECURSIVE NatStr(_)
NatStr(k) == IF k < 10 THEN <<Digit[k + 1]>>
             ELSE NatStr(k \div 10) \o <<Digit[(k % 10) + 1]>>

RECURSIVE LPad(_, _)
LPad(cs, width) == IF Len(cs) >= width THEN cs ELSE LPad(<<"0">> \o cs, width)

DigitVal(c) == CHOOSE k \in 0..9 : Digit[k + 1] = c

\* the number the first k digits of cs write
RECURSIVE DigitsValUpTo(_, _)
DigitsValUpTo(cs, k) == IF k = 0 THEN 0
                        ELSE 10 * DigitsValUpTo(cs, k - 1) + DigitVal(cs[k])

DigitsVal(cs) == DigitsValUpTo(cs, Len(cs))

\* str.rstrip(c)
RStrip(s, c) ==
    Bind(s, LAMBDA cs :
        LET keep == {k \in 1..Len(cs) : cs[k] # c}
        IN  IF keep = {} THEN <<>>
            ELSE SubSeq(cs, 1, CHOOSE k \in keep : \A j \in keep : j <= k))

\* str.replace(old, new) for single characters
Replace(s, old, new) ==
    Bind(s, LAMBDA cs : [k \in 1..Len(cs) |-> IF cs[k] = old THEN new ELSE cs[k]])

\* round half to even of a / m, for a >= 0: what "{:.{}f}".format does with a
\* float that is exact in binary
RoundHalfEven(a, m) ==
    LET q == a \div m
        r == a % m
    IN  IF 2 * r > m \/ (2 * r = m /\ q % 2 = 1) THEN q + 1 ELSE q

\* the value k / 10^p in units of 10^-d
Scaled(k, p, d) == IF d >= p THEN Abs(k) * Pow10(d - p)
                   ELSE RoundHalfEven(Abs(k), Pow10(p - d))

\* "{:.{}f}".format(x, d) for the float x = k / 10^p and d >= 0
FixedFormat(k, p, d) ==
    Bind(LPad(NatStr(Scaled(k, p, d)), d + 1), LAMBDA ds :
        LET intp == SubSeq(ds, 1, Len(ds) - d)
            frac == SubSeq(ds, Len(ds) - d + 1, Len(ds))
            body == IF d = 0 THEN intp ELSE intp \o <<".">> \o frac
        IN  IF k < 0 THEN <<"-">> \o body ELSE body)

\* float(str): an optional sign, digits, at most one '.', at least one digit
ParseFloat(s) ==
    Bind(s, LAMBDA cs :
        LET neg == cs # <<>> /\ cs[1] = "-"
        IN  Bind(IF neg THEN SubSeq(cs, 2, Len(cs)) ELSE cs, LAMBDA body :
            LET dots == {k \in 1..Len(body) : body[k] = "."}
                wellFormed == /\ \A k \in 1..Len(body) : body[k] \in DigitSet \cup {"."}
                              /\ Cardinality(dots) <= 1
                              /\ \E k \in 1..Len(body) : body[k] \in DigitSet
            IN  IF ~wellFormed THEN Raised
                ELSE IF dots = {}
                     THEN Float((IF neg THEN -1 ELSE 1) * DigitsVal(body), 0)
                ELSE LET at == CHOOSE k \in dots : TRUE
                         intp == SubSeq(body, 1, at - 1)
                         frac == SubSeq(body, at + 1, Len(body))
                     IN  Float((IF neg THEN -1 ELSE 1) * DigitsVal(intp \o frac),
                               Len(frac))))

\* float(value)
PyFloat(value) ==
    Bind(value, LAMBDA v :
        IF v.py = "float" THEN v
        ELSE IF v.py = "int" THEN Float(v.n, 0)
        ELSE IF IsCharStr(v) THEN ParseFloat(v.chars)
        ELSE Raised)

DEFAULT_DECIMALS == 5

format_number(value, decimals) ==
    Bind(value, LAMBDA v :
        IF v = NA \/ v = None THEN NA
        ELSE Bind(PyFloat(v), LAMBDA x :
            IF x = Raised \/ decimals < 0 THEN NA
            ELSE Bind(RStrip(RStrip(FixedFormat(x.n, x.p, decimals), "0"), "."),
                      LAMBDA formatted :
                          Chars(Replace(IF formatted = <<>> THEN <<"0">> ELSE formatted,
                                        ".", ","))))) 

----------------------------------------------------------------------------
(* The host model: parameters, unit conversion, elements *)

UnitType(name) == [py |-> "unit", name |-> name]
Millimeters == UnitType("Millimeters")
SquareMeters == UnitType("SquareMeters")
CubicMeters == UnitType("CubicMeters")
\* a unit type the host's UnitUtils rejects (it raises)
UnsupportedUnit == UnitType("Unsupported")

\* bool(value) for the values the code tests
Truthy(v) == v # None /\ v # Txt("") /\ v # Chars(<<>>)

\* a or b
PyOr(a, b) == IF Truthy(a) THEN a ELSE b

\* str(k) for an int
PyStr(k) == Chars(IF k < 0 THEN <<"-">> \o NatStr(-k) ELSE NatStr(k))

\* round(x, nd) for a float x
PyRound(value, nd) ==
    Bind(value, LAMBDA x :
        IF x.p <= nd THEN x
        ELSE Float((IF x.n < 0 THEN -1 ELSE 1) * RoundHalfEven(Abs(x.n), Pow10(x.p - nd)),
                   nd))

\* UnitUtils.ConvertFromInternalUnits, a host service: feet to millimetres
\* is exact (304.8); square and cubic feet are scaled by the factor cut to
\* three significant digits (0.0929, 0.0283).
UnitUtils_ConvertFromInternalUnits(value, unit_type) ==
    Bind(value, LAMBDA x :
        IF unit_type = Millimeters THEN Float(x.n * 3048, x.p + 1)
        ELSE IF unit_type = SquareMeters THEN Float(x.n * 929, x.p + 4)
        ELSE IF unit_type = CubicMeters THEN Float(x.n * 283, x.p + 4)
        ELSE Raised)

convert_from_internal_units(value, unit_type) ==
    IF unit_type = None THEN value
    ELSE Bind(UnitUtils_ConvertFromInternalUnits(value, unit_type), LAMBDA converted :
             IF converted = Raised THEN value ELSE converted)

\* A Parameter of the host. raises: reading its value raises.
Parameter(hasValue, storage, dbl, int, str, valstr, raises) ==
    [HasValue |-> hasValue, StorageType |-> storage, AsDouble |-> dbl,
     AsInteger |-> int, AsString |-> str, AsValueString |-> valstr,
     raises |-> raises]

P_NoValue == Parameter(FALSE, "Double", Float(0, 0), 0, None, None, FALSE)
P_Raises == Parameter(TRUE, "Double", Float(0, 0), 0, None, None, TRUE)
P_Double(k, display) == Parameter(TRUE, "Double", Float(k, 2), 0, None, Txt(display), FALSE)
P_Integer(k) == Parameter(TRUE, "Integer", Float(0, 0), k, None, PyStr(k), FALSE)
P_String(s) == Parameter(TRUE, "String", Float(0, 0), 0, Txt(s), Txt(s), FALSE)
\* a text parameter that holds the empty string
P_Empty == Parameter(TRUE, "String", Float(0, 0), 0, Txt(""), None, FALSE)

\* element.get_Parameter(key) / element.LookupParameter(name): None when absent
Lookup(table, key) == IF key \in DOMAIN table THEN table[key] ELSE None

EmptyTable == [k \in {} |-> None]

----------------------------------------------------------------------------
(* get_parameter_value_comprehensive *)

\* marks "this candidate did not match": the loop goes on
NoMatch == [py |-> "nomatch"]

\* The names of param_names that BuiltInParameter defines, in order.
get_safe_builtin_params(param_names, BuiltInParameter) ==
    LET defined(name) == name \in BuiltInParameter
    IN  SelectSeq(param_names, defined)

\* The body of one candidate's try block: the value returned, NoMatch when
\* the parameter is absent or has no value, Raised when the read raises.
read_candidate(parameter, unit_type) ==
    Bind(parameter, LAMBDA param :
        IF param = None THEN NoMatch
        ELSE IF ~param.HasValue THEN NoMatch
        ELSE IF param.raises THEN Raised
        ELSE IF unit_type # None
             THEN format_number(convert_from_internal_units(param.AsDouble, unit_type),
                                DEFAULT_DECIMALS)
        ELSE IF param.StorageType = "Integer" THEN PyStr(param.AsInteger)
        ELSE PyOr(param.AsString, param.AsValueString))

\* A mutant of search_candidates: a candidate whose read raises ends the
\* search (no try/except around the candidate).
RECURSIVE search_candidates_abort(_, _, _, _)
search_candidates_abort(table, keys, unit_type, k) ==
    IF k > Len(keys) THEN NoMatch
    ELSE Bind(read_candidate(Lookup(table, keys[k]), unit_type), LAMBDA r :
             IF r = NoMatch
             THEN search_candidates_abort(table, keys, unit_type, k + 1)
             ELSE r)

\* One "for ... try ... except: continue" loop over the candidate keys, from
\* the k-th on: the first value returned, or NoMatch.
RECURSIVE search_candidates(_, _, _, _)
search_candidates(table, keys, unit_type, k) ==
    IF k > Len(keys) THEN NoMatch
    ELSE Bind(read_candidate(Lookup(table, keys[k]), unit_type), LAMBDA r :
             IF r = NoMatch \/ r = Raised
             THEN search_candidates(table, keys, unit_type, k + 1)
             ELSE r)

\* The four searches of get_parameter_value_comprehensive, each evaluated
\* once: Method 1 (built-in keys, entity), Method 2 (built-in keys, type),
\* Method 3 (names, entity), Method 4 (names, type).
gpvc_methods(element, builtin_param_names, unit_type, fallback_param_names, BuiltInParameter) ==
    Bind(get_safe_builtin_params(builtin_param_names, BuiltInParameter), LAMBDA safe :
    Bind(element.typ, LAMBDA element_type :
    Bind(fallback_param_names, LAMBDA names :
        << search_candidates(element.bip, safe, unit_type, 1),
           IF element_type # None
           THEN search_candidates(element_type.bip, safe, unit_type, 1)
           ELSE NoMatch,
           \* "if fallback_param_names": None and the empty list are both <<>>
           IF names # <<>>
           THEN search_candidates(element.named, names, unit_type, 1)
           ELSE NoMatch,
           IF names # <<>> /\ element_type # None
           THEN search_candidates(element_type.named, names, unit_type, 1)
           ELSE NoMatch >>)))

\* A mutant of get_parameter_value_comprehensive: the fallback names on the
\* entity are searched before the built-in keys on the type entity.
gpvc_names_before_type(element, builtin_param_names, unit_type, fallback_param_names, BuiltInParameter) ==
    Bind(gpvc_methods(element, builtin_param_names, unit_type, fallback_param_names,
                      BuiltInParameter), LAMBDA m :
        IF m[1] # NoMatch THEN m[1]
        ELSE IF m[3] # NoMatch THEN m[3]
        ELSE IF m[2] # NoMatch THEN m[2]
        ELSE IF m[4] # NoMatch THEN m[4]
        ELSE NA)

\* A mutant of get_parameter_value_comprehensive: the fallback names are
\* never looked up on the type entity (Method 4 missing).
gpvc_no_type_names(element, builtin_param_names, unit_type, fallback_param_names, BuiltInParameter) ==
    Bind(gpvc_methods(element, builtin_param_names, unit_type, fallback_param_names,
                      BuiltInParameter), LAMBDA m :
        IF m[1] # NoMatch THEN m[1]
        ELSE IF m[2] # NoMatch THEN m[2]
        ELSE IF m[3] # NoMatch THEN m[3]
        ELSE NA)

\* Methods 1 to 4 in order, the first value found; "N/A" when none is, and
\* when an exception reaches the outer try (a search that raised).
get_parameter_value_comprehensive(element, builtin_param_names, unit_type, fallback_param_names, BuiltInParameter) ==
    Bind(gpvc_methods(element, builtin_param_names, unit_type, fallback_param_names,
                      BuiltInParameter), LAMBDA m :
        IF m[1] # NoMatch THEN (IF m[1] = Raised THEN NA ELSE m[1])
        ELSE IF m[2] # NoMatch THEN (IF m[2] = Raised THEN NA ELSE m[2])
        ELSE IF m[3] # NoMatch THEN (IF m[3] = Raised THEN NA ELSE m[3])
        ELSE IF m[4] # NoMatch THEN (IF m[4] = Raised THEN NA ELSE m[4])
        ELSE NA)

----------------------------------------------------------------------------
(* Elements and the resolvers built on get_parameter_value_comprehensive *)

\* An element of the host model. Category: None or a category; typ: the
\* element doc.GetElement(element.GetTypeId()) gives, None when there is
\* none; bip / named: its parameters by built-in key and by name; cls: its
\* API class ("Wall" has WallType, "Floor" FloorType, "Roof" RoofType);
\* materialIds: what GetMaterialIds(False) returns; dbgFail: reading the
\* Definition of its first parameter raises.
Element(id, category, typ, bip, named, cls, materialIds, dbgFail) ==
    [Id |-> id, Category |-> category, typ |-> typ, bip |-> bip, named |-> named,
     cls |-> cls, materialIds |-> materialIds, dbgFail |-> dbgFail]

\* A type element. hostAttr: it has GetCompoundStructure; cs: what that
\* returns, None or [layers, failAt] (failAt = k > 0: reading the k-th layer
\* raises).
ElementType(id, name, bip, named, hostAttr, cs) ==
    [Id |-> id, Name |-> name, bip |-> bip, named |-> named, hostAttr |-> hostAttr,
     cs |-> cs]

Category(name, material) == [Name |-> name, Material |-> material]

InvalidElementId == -1

\* the category names of the model that contain "stair" in lower case
StairLikeNames == {"Stairs", "Stair Paths"}

is_stair_element(element) ==
    IF element.Category # None
    THEN element.Category.Name = "Stairs" \/ element.Category.Name \in StairLikeNames
    ELSE FALSE

get_unit_type_millimeters == Millimeters
get_unit_type_square_meters == SquareMeters
get_unit_type_cubic_meters == CubicMeters

get_element_width(element, BuiltInParameter) ==
    get_parameter_value_comprehensive(element,
        <<"DOOR_WIDTH", "WINDOW_WIDTH", "GENERIC_WIDTH", "FAMILY_WIDTH_PARAM">>,
        get_unit_type_millimeters,
        <<"Width", "Rough Width", "Opening Width">>, BuiltInParameter)

get_element_height(element, BuiltInParameter) ==
    get_parameter_value_comprehensive(element,
        <<"DOOR_HEIGHT", "WINDOW_HEIGHT", "GENERIC_HEIGHT", "FAMILY_HEIGHT_PARAM",
          "WALL_USER_HEIGHT_PARAM">>,
        get_unit_type_millimeters,
        <<"Height", "Rough Height", "Opening Height", "Unconnected Height">>,
        BuiltInParameter)

ThicknessBuiltin == <<"WALL_ATTR_WIDTH_PARAM", "GENERIC_THICKNESS", "FAMILY_THICKNESS_PARAM">>
ThicknessNames == <<"Thickness", "Width">>

get_element_thickness(element, BuiltInParameter) ==
    get_parameter_value_comprehensive(element, ThicknessBuiltin,
        get_unit_type_millimeters, ThicknessNames, BuiltInParameter)

\* hasattr(element, 'WallType') or hasattr(element, 'FloorType') or
\* hasattr(element, 'RoofType')
HasHostTypeAttr(element) == element.cls \in {"Wall", "Floor", "Roof"}

\* "for param in element.Parameters" restricted to the names the loop
\* accepts, in the host's order; inside a try: a read that raises ends it.
RECURSIVE scan_parameters(_, _, _, _)
scan_parameters(element, names, unit_type, k) ==
    IF k > Len(names) THEN NA
    ELSE Bind(Lookup(element.named, names[k]), LAMBDA param :
             IF param = None THEN scan_parameters(element, names, unit_type, k + 1)
             ELSE IF param.HasValue /\ param.StorageType = "Double"
                  THEN IF param.raises THEN NA
                       ELSE IF param.AsDouble.n > 0
                            THEN format_number(
                                     convert_from_internal_units(param.AsDouble, unit_type),
                                     DEFAULT_DECIMALS)
                            ELSE scan_parameters(element, names, unit_type, k + 1)
             ELSE scan_parameters(element, names, unit_type, k + 1))

\* element.LookupParameter(name) read directly, inside a try
direct_lookup(element, name, unit_type) ==
    Bind(Lookup(element.named, name), LAMBDA param :
        IF param # None /\ param.HasValue /\ ~param.raises
        THEN format_number(convert_from_internal_units(param.AsDouble, unit_type),
                           DEFAULT_DECIMALS)
        ELSE NoMatch)

AreaLikeNames == <<"Area", "Surface Area", "Gross Area", "Net Area">>
VolumeLikeNames == <<"Volume", "Gross Volume", "Net Volume">>

get_element_area_robust(element, BuiltInParameter) ==
    Bind(IF is_stair_element(element)
         THEN get_parameter_value_comprehensive(element, <<"HOST_AREA_COMPUTED">>,
                  get_unit_type_square_meters, <<"Area">>, BuiltInParameter)
         ELSE NA, LAMBDA stairs :
        IF stairs # NA THEN stairs
        ELSE Bind(get_parameter_value_comprehensive(element,
                      <<"HOST_AREA_COMPUTED", "ROOM_AREA">>,
                      get_unit_type_square_meters,
                      <<"Area", "Gross Surface Area", "Net Surface Area">>,
                      BuiltInParameter), LAMBDA method1 :
            IF method1 # NA THEN method1
            ELSE Bind(IF HasHostTypeAttr(element)
                      THEN direct_lookup(element, "Area", get_unit_type_square_meters)
                      ELSE NoMatch, LAMBDA method2 :
                IF method2 # NoMatch THEN method2
                ELSE scan_parameters(element, AreaLikeNames,
                                     get_unit_type_square_meters, 1))))

get_element_volume_robust(element, BuiltInParameter) ==
    Bind(IF is_stair_element(element)
         THEN get_parameter_value_comprehensive(element, <<"HOST_VOLUME_COMPUTED">>,
                  get_unit_type_cubic_meters, <<"Volume">>, BuiltInParameter)
         ELSE NA, LAMBDA stairs :
        IF stairs # NA THEN stairs
        ELSE Bind(get_parameter_value_comprehensive(element,
                      <<"HOST_VOLUME_COMPUTED", "ROOM_VOLUME">>,
                      get_unit_type_cubic_meters,
                      <<"Volume", "Gross Volume", "Net Volume">>,
                      BuiltInParameter), LAMBDA method1 :
            IF method1 # NA THEN method1
            ELSE Bind(direct_lookup(element, "Volume", get_unit_type_cubic_meters),
                      LAMBDA method2 :
                IF method2 # NoMatch THEN method2
                ELSE scan_parameters(element, VolumeLikeNames,
                                     get_unit_type_cubic_meters, 1))))

----------------------------------------------------------------------------
(* The document and the layer walk *)

\* "prefix{}".format(arg)
Fmt(prefix, arg) == [py |-> "str", text |-> prefix, arg |-> arg]

\* str(value).startswith('ByCategory')
StartsWithByCategory(value) ==
    /\ value.py = "str"
    /\ "text" \in DOMAIN value
    /\ value.text \in {"ByCategory_", "ByCategory_Unknown"}

\* 'By Category:' in value
ContainsByCategoryColon(value) ==
    value.py = "str" /\ "text" \in DOMAIN value /\ value.text = "By Category: "

\* dict.get(key, default)
DictGet(dict, key, default) == IF key \in DOMAIN dict THEN dict[key] ELSE default

Material(id, name, cls) == [Id |-> id, Name |-> name, MaterialClass |-> cls]

\* the materials of the document by element id; no other id is a material
DocMaterials ==
    [id \in {1, 2} |-> IF id = 1 THEN Material(1, Txt("Concrete"), Txt("Concrete"))
                       ELSE Material(2, Txt("Paint; White"), Txt("Paint"))]

\* doc.GetElement(material_id)
doc_GetElement(material_id) ==
    IF material_id \in DOMAIN DocMaterials THEN DocMaterials[material_id] ELSE None

\* one layer of a compound structure; Width in feet
Layer(materialId, width) == [MaterialId |-> materialId, Width |-> width]

\* what GetCompoundStructure() returns when not None: the layers, and
\* failAt = k > 0 when the host raises while the k-th layer is read
CompoundStructure(layers, failAt) == [layers |-> layers, failAt |-> failAt]

\* the names BuiltInParameter defines in the host the extractor runs in
HostBuiltInParameter ==
    {"WALL_ATTR_WIDTH_PARAM", "GENERIC_THICKNESS", "FAMILY_THICKNESS_PARAM",
     "HOST_AREA_COMPUTED", "ROOM_AREA", "HOST_VOLUME_COMPUTED", "ROOM_VOLUME",
     "DOOR_WIDTH", "WINDOW_WIDTH", "GENERIC_WIDTH", "FAMILY_WIDTH_PARAM",
     "DOOR_HEIGHT", "WINDOW_HEIGHT", "GENERIC_HEIGHT", "FAMILY_HEIGHT_PARAM",
     "WALL_USER_HEIGHT_PARAM", "ELEM_TYPE_PARAM", "SYMBOL_NAME_PARAM",
     "ELEM_FAMILY_PARAM", "SYMBOL_FAMILY_NAME_PARAM", "ELEM_FAMILY_AND_TYPE_PARAM",
     "SYMBOL_FAMILY_AND_TYPE_NAMES_PARAM", "STAIRS_ACTUAL_NUM_RISERS",
     "STAIRS_DESIRED_NUM_RISERS", "STAIRS_ACTUAL_RISER_HEIGHT",
     "STAIRS_ACTUAL_TREAD_DEPTH", "STAIRS_ATTR_TREAD_DEPTH_PARAM",
     "STAIRS_ATTR_RISER_HEIGHT_PARAM", "STAIRS_ATTR_TOTAL_HEIGHT",
     "STAIRS_ATTR_HEIGHT", "STAIRS_ATTR_RUN_WIDTH", "STAIRS_ACTUAL_RUN_WIDTH"}

\* element.GetTypeId().IntegerValue
GetTypeId(element) == IF element.typ = None THEN InvalidElementId ELSE element.typ.Id

get_category_material_info(element) ==
    IF element.Category # None /\ element.Category.Material # None
    THEN [material_id |-> PyInt(element.Category.Material.Id),
          material_name |-> element.Category.Material.Name,
          material_class |-> element.Category.Material.MaterialClass]
    ELSE None

\* the entry the except branch of get_material_layers appends
ErrorLayer ==
    [LayerIndex |-> PyInt(-1), MaterialId |-> Txt("Error"),
     MaterialName |-> Fmt("Error: ", Txt("exception")), Thickness_mm |-> NA]

\* the body of the layer loop of get_material_layers for the layer at index
\* i: the entry appended, or Raised
layer_entry(element, layer, i) ==
    Bind(PyRound(convert_from_internal_units(layer.Width, get_unit_type_millimeters), 2),
         LAMBDA thickness_mm :
        IF layer.MaterialId = InvalidElementId
        THEN Bind(get_category_material_info(element), LAMBDA category_material :
                 IF category_material # None
                 THEN [LayerIndex |-> PyInt(i),
                       MaterialId |-> Fmt("ByCategory_", category_material.material_id),
                       MaterialName |-> Fmt("By Category: ",
                                            category_material.material_name),
                       Thickness_mm |-> thickness_mm]
                 ELSE IF element.Category = None THEN Raised
                 ELSE [LayerIndex |-> PyInt(i),
                       MaterialId |-> Txt("ByCategory_Unknown"),
                       MaterialName |-> Fmt("By Category: ", Txt(element.Category.Name)),
                       Thickness_mm |-> thickness_mm])
        ELSE Bind(doc_GetElement(layer.MaterialId), LAMBDA mat :
                 [LayerIndex |-> PyInt(i),
                  MaterialId |-> PyInt(layer.MaterialId),
                  MaterialName |-> IF mat # None THEN mat.Name
                                   ELSE Txt("Unknown Material"),
                  Thickness_mm |-> thickness_mm]))

\* "for i, layer in enumerate(layers)" of get_material_layers from index i
\* on, with the except branch: what results holds from there
RECURSIVE enumerate_layers(_, _, _)
enumerate_layers(element, cs, i) ==
    IF i >= Len(cs.layers) THEN <<>>
    ELSE IF cs.failAt = i + 1 THEN <<ErrorLayer>>
    ELSE Bind(layer_entry(element, cs.layers[i + 1], i), LAMBDA entry :
             IF entry = Raised THEN <<ErrorLayer>>
             ELSE <<entry>> \o enumerate_layers(element, cs, i + 1))

\* A mutant of get_material_layers: a type whose GetCompoundStructure()
\* returns None gives no entry (the thickness search is not made).
get_material_layers_no_pseudo(element, BuiltInParameter) ==
    IF element.typ = None \/ ~element.typ.hostAttr \/ element.typ.cs = None THEN <<>>
    ELSE enumerate_layers(element, element.typ.cs, 0)

get_material_layers(element, BuiltInParameter) ==
    Bind(element.typ, LAMBDA element_type :
        IF element_type = None THEN <<>>
        ELSE IF ~element_type.hostAttr THEN <<>>
        ELSE IF element_type.cs # None
             THEN enumerate_layers(element, element_type.cs, 0)
        ELSE Bind(get_element_thickness(element, BuiltInParameter), LAMBDA thickness :
                 IF thickness # NA
                 THEN << [LayerIndex |-> PyInt(0), MaterialId |-> NA,
                          MaterialName |-> NA, Thickness_mm |-> thickness] >>
                 ELSE <<>>))

\* the ids of ids that are valid, each once, in order of first occurrence
RECURSIVE valid_ids(_, _)
valid_ids(ids, k) ==
    IF k = 0 THEN <<>>
    ELSE Bind(valid_ids(ids, k - 1), LAMBDA valid :
             IF ids[k] # InvalidElementId /\ \A j \in 1..Len(valid) : valid[j] # ids[k]
             THEN Append(valid, ids[k])
             ELSE valid)

\* A mutant of get_element_material_ids: only the first material id is
\* kept.
get_element_material_ids_first(element) ==
    Bind(valid_ids(element.materialIds, Len(element.materialIds)), LAMBDA valid :
        IF valid = <<>> THEN <<>> ELSE <<valid[1]>>)

\* element.materialIds: what element.GetMaterialIds(False) returns (a call
\* that raises leaves the list as an empty result does)
get_element_material_ids(element) ==
    Bind(element.typ, LAMBDA element_type :
        LET walk == /\ HasHostTypeAttr(element)
                    /\ element_type # None
                    /\ element_type.hostAttr
                    /\ element_type.cs # None
        IN  IF walk /\ element_type.cs.failAt > 0 THEN <<>>
            ELSE LET layer_ids == IF walk
                                  THEN [k \in 1..Len(element_type.cs.layers) |->
                                           element_type.cs.layers[k].MaterialId]
                                  ELSE <<>>
                     material_ids == layer_ids \o element.materialIds
                 IN  valid_ids(material_ids, Len(material_ids)))

get_material_thickness(element, material_id, BuiltInParameter) ==
    Bind(element.typ, LAMBDA element_type :
        LET walk == element_type # None /\ element_type.hostAttr /\ element_type.cs # None
            layers == IF walk THEN element_type.cs.layers ELSE <<>>
            failAt == IF walk THEN element_type.cs.failAt ELSE 0
            hits == {k \in 1..Len(layers) : layers[k].MaterialId = material_id}
            first == IF hits = {} THEN 0 ELSE CHOOSE k \in hits : \A j \in hits : k <= j
        IN  IF failAt > 0 /\ (first = 0 \/ failAt <= first) THEN NA
            ELSE IF first > 0
                 THEN PyRound(convert_from_internal_units(layers[first].Width,
                                                          get_unit_type_millimeters), 5)
            ELSE get_element_thickness(element, BuiltInParameter))

\* float(str(area_str).replace(',', '.'))
area_as_float(area_str) ==
    Bind(area_str, LAMBDA a :
        IF IsCharStr(a) THEN ParseFloat(Replace(a.chars, ",", ".")) ELSE Raised)

\* area_sqm * (float(thickness_mm) / 1000.0), in exact decimal arithmetic
layer_volume(area_sqm, thickness) == Float(area_sqm.n * thickness.n, area_sqm.p + thickness.p + 3)

calculate_layer_volume(element, thickness_mm, BuiltInParameter) ==
    IF element.cls \in {"Wall", "Floor"}
    THEN Bind(get_element_area_robust(element, BuiltInParameter), LAMBDA area_str :
             IF area_str # NA /\ thickness_mm # NA
             THEN Bind(area_as_float(area_str), LAMBDA area_sqm :
                  Bind(PyFloat(thickness_mm), LAMBDA thickness :
                      IF area_sqm = Raised \/ thickness = Raised THEN NA
                      ELSE PyRound(layer_volume(area_sqm, thickness), 5)))
             ELSE NA)
    ELSE NA

calculate_material_area(element, material_id, BuiltInParameter) ==
    get_element_area_robust(element, BuiltInParameter)

----------------------------------------------------------------------------
(* Element information and Records *)

\* str(ExportUtils.GetExportId(doc, element.Id)), a host service
get_export_guid(element) == Fmt("guid-", PyInt(element.Id))

\* The elements of the model are no family instances: none has a Symbol
\* attribute, and a type element has no Category.
get_element_type_name(element, BuiltInParameter) ==
    Bind(get_parameter_value_comprehensive(element,
             <<"ELEM_TYPE_PARAM", "SYMBOL_NAME_PARAM">>, None,
             <<"Type Name", "Family and Type", "Type">>, BuiltInParameter),
         LAMBDA type_name :
        IF type_name # NA THEN type_name
        ELSE IF GetTypeId(element) = InvalidElementId THEN Txt("No TypeId")
        ELSE IF element.typ.Name # "" THEN Txt(element.typ.Name)
        ELSE Fmt("Type ID ", PyInt(element.typ.Id)))

get_family_name(element, BuiltInParameter) ==
    Bind(get_parameter_value_comprehensive(element,
             <<"ELEM_FAMILY_PARAM", "SYMBOL_FAMILY_NAME_PARAM">>, None,
             <<"Family", "Family Name">>, BuiltInParameter),
         LAMBDA family_name :
        IF family_name # NA THEN family_name
        ELSE IF element.cls = "Wall" THEN Txt("Wall")
        ELSE IF element.cls = "Floor" THEN Txt("Floor")
        ELSE IF element.cls = "Roof" THEN Txt("Roof")
        ELSE IF element.Category # None THEN Txt(element.Category.Name)
        ELSE Txt("Unknown"))

get_family_type(element, BuiltInParameter) ==
    Bind(get_parameter_value_comprehensive(element,
             <<"ELEM_FAMILY_AND_TYPE_PARAM", "SYMBOL_FAMILY_AND_TYPE_NAMES_PARAM">>, None,
             <<"Family and Type", "Type">>, BuiltInParameter),
         LAMBDA family_type :
        IF family_type # NA THEN family_type
        \* element.WallType.Name and the like: no type raises, "Unknown"
        ELSE IF element.typ = None THEN Txt("Unknown")
        ELSE Txt(element.typ.Name))

\* element.GetStairsRuns() exists on the element
HasStairsRuns(element) == "runs" \in DOMAIN element

get_stair_run_width(element, BuiltInParameter) ==
    IF ~is_stair_element(element) THEN NA
    ELSE IF ~HasStairsRuns(element) THEN NA
    ELSE IF element.runs = <<>> THEN NA
    ELSE Bind(get_parameter_value_comprehensive(element.runs[1],
                  <<"STAIRS_ACTUAL_RUN_WIDTH", "STAIRS_ATTR_ACTUAL_RUN_WIDTH",
                    "STAIRS_ATTR_RUN_WIDTH">>,
                  get_unit_type_millimeters,
                  <<"Actual Run Width", "Run Width", "Width">>, BuiltInParameter),
              LAMBDA run_width :
             IF run_width # NA THEN run_width
             ELSE Bind(direct_lookup([named |-> element.runs[1].bip],
                                     "STAIRS_ACTUAL_RUN_WIDTH",
                                     get_unit_type_millimeters), LAMBDA direct :
                      IF direct # NoMatch THEN direct ELSE NA))

StairFieldnames ==
    <<"NumberOfRisers", "RiserHeight_mm", "TreadDepth_mm", "StairWidth_mm",
      "TotalHeight_mm">>

\* the dict get_stair_parameters returns ({} for an element that is no stair)
get_stair_parameters(element, BuiltInParameter) ==
    IF ~is_stair_element(element) THEN EmptyTable
    ELSE [field \in {StairFieldnames[k] : k \in 1..Len(StairFieldnames)} |->
            CASE field = "NumberOfRisers" ->
                    get_parameter_value_comprehensive(element,
                        <<"STAIRS_ATTR_TOTAL_RUN_RISERS", "STAIRS_ACTUAL_NUM_RISERS",
                          "STAIRS_DESIRED_NUM_RISERS">>, None,
                        <<"Actual Number of Risers", "Desired Number of Risers",
                          "Number of Risers", "Total Risers", "Risers">>,
                        BuiltInParameter)
              [] field = "RiserHeight_mm" ->
                    get_parameter_value_comprehensive(element,
                        <<"STAIRS_ATTR_RISER_HEIGHT_PARAM", "STAIRS_ACTUAL_RISER_HEIGHT",
                          "STAIRS_DESIRED_RISER_HEIGHT">>, get_unit_type_millimeters,
                        <<"Actual Riser Height", "Maximum Riser Height",
                          "Desired Riser Height", "Riser Height">>, BuiltInParameter)
              [] field = "TreadDepth_mm" ->
                    get_parameter_value_comprehensive(element,
                        <<"STAIRS_ATTR_TREAD_DEPTH_PARAM", "STAIRS_ACTUAL_TREAD_DEPTH",
                          "STAIRS_DESIRED_TREAD_DEPTH">>, get_unit_type_millimeters,
                        <<"Actual Tread Depth", "Minimum Tread Depth",
                          "Desired Tread Depth", "Tread Depth">>, BuiltInParameter)
              [] field = "StairWidth_mm" ->
                    Bind(get_stair_run_width(element, BuiltInParameter), LAMBDA width :
                        IF width # NA THEN width
                        ELSE get_parameter_value_comprehensive(element,
                                 <<"STAIRS_ATTR_RUN_WIDTH">>, get_unit_type_millimeters,
                                 <<"Minimum Run Width", "Run Width", "Width">>,
                                 BuiltInParameter))
              [] field = "TotalHeight_mm" ->
                    get_parameter_value_comprehensive(element,
                        <<"STAIRS_ATTR_TOTAL_HEIGHT", "STAIRS_ATTR_HEIGHT",
                          "GENERIC_HEIGHT">>, get_unit_type_millimeters,
                        <<"Desired Stair Height", "Total Height", "Height",
                          "Stair Height", "Overall Height">>, BuiltInParameter)]

_get_element_info(self, element, BuiltInParameter) ==
    [element_id |-> PyInt(element.Id),
     category |-> IF element.Category # None THEN Txt(element.Category.Name)
                  ELSE Txt("Unknown"),
     export_guid |-> get_export_guid(element),
     family_name |-> get_family_name(element, BuiltInParameter),
     family_type |-> get_family_type(element, BuiltInParameter),
     element_type |-> get_element_type_name(element, BuiltInParameter),
     type_id |-> PyInt(GetTypeId(element)),
     width |-> get_element_width(element, BuiltInParameter),
     height |-> get_element_height(element, BuiltInParameter),
     volume |-> get_element_volume_robust(element, BuiltInParameter),
     area |-> get_element_area_robust(element, BuiltInParameter),
     stair_params |-> get_stair_parameters(element, BuiltInParameter)]

_get_material_class(self, layer_info) ==
    LET material_id == DictGet(layer_info, "MaterialId", None)
        material_name == DictGet(layer_info, "MaterialName", Txt(""))
    IN  IF StartsWithByCategory(material_id)
        THEN IF ContainsByCategoryColon(material_name)
             THEN Txt("By Category (Resolved)")
             ELSE Txt("By Category (Unresolved)")
        ELSE IF material_id = NA \/ material_id = Txt("Error") THEN Txt("Unknown")
        ELSE IF material_id = Txt("No_Material") THEN Txt("No Material")
        ELSE IF material_id.py # "int" THEN Txt("Unknown")
        ELSE Bind(doc_GetElement(material_id.n), LAMBDA material :
                 IF material # None THEN material.MaterialClass ELSE Txt("Unknown"))

\* the five stair fields of a Record: the element's stair parameters for a
\* stair, "N/A" otherwise
stair_fields(element, element_info) ==
    [field \in {StairFieldnames[k] : k \in 1..Len(StairFieldnames)} |->
        IF is_stair_element(element)
        THEN DictGet(element_info.stair_params, field, NA)
        ELSE NA]

\* the dict literal of _create_material_record: the 18 base fields
material_record_base(self, element, element_info, layer_info, BuiltInParameter) ==
    Bind(DictGet(layer_info, "Thickness_mm", NA), LAMBDA thickness :
        LET material_volume == calculate_layer_volume(element, thickness,
                                                      BuiltInParameter)
            material_area == calculate_material_area(element, None, BuiltInParameter)
        IN  [ElementId |-> element_info.element_id,
             ElementCategory |-> element_info.category,
             ExportGUID |-> element_info.export_guid,
             FamilyName |-> element_info.family_name,
             FamilyType |-> element_info.family_type,
             Type |-> element_info.element_type,
             TypeId |-> element_info.type_id,
             Width_mm |-> element_info.width,
             Height_mm |-> element_info.height,
             LayerIndex |-> DictGet(layer_info, "LayerIndex", PyInt(0)),
             MaterialId |-> DictGet(layer_info, "MaterialId", NA),
             MaterialName |-> DictGet(layer_info, "MaterialName", NA),
             MaterialClass |-> _get_material_class(self, layer_info),
             Thickness_mm |-> format_number(thickness, DEFAULT_DECIMALS),
             MaterialVolume_m3 |-> format_number(material_volume, DEFAULT_DECIMALS),
             MaterialArea_m2 |-> format_number(material_area, DEFAULT_DECIMALS),
             ElementTotalVolume_m3 |-> format_number(element_info.volume,
                                                     DEFAULT_DECIMALS),
             ElementTotalArea_m2 |-> format_number(element_info.area,
                                                   DEFAULT_DECIMALS)])

\* record.update(...) adds the stair fields in both branches
_create_material_record(self, element, element_info, layer_info, BuiltInParameter) ==
    stair_fields(element, element_info)
        @@ material_record_base(self, element, element_info, layer_info, BuiltInParameter)

relevant_categories ==
    {"Walls", "Floors", "Roofs", "Ceilings", "Structural Framing",
     "Structural Columns", "Doors", "Windows", "Furniture", "Casework", "Stairs"}

\* the dict literal of _create_basic_element_record with the stair fields
\* its update adds
basic_record(self, element, element_info, BuiltInParameter) ==
    stair_fields(element, element_info) @@
    [ElementId |-> element_info.element_id,
     ElementCategory |-> element_info.category,
     ExportGUID |-> element_info.export_guid,
     FamilyName |-> element_info.family_name,
     FamilyType |-> element_info.family_type,
     Type |-> element_info.element_type,
     TypeId |-> element_info.type_id,
     Width_mm |-> element_info.width,
     Height_mm |-> element_info.height,
     LayerIndex |-> PyInt(0),
     MaterialId |-> Txt("No_Material"),
     MaterialName |-> Txt("No Material Assigned"),
     MaterialClass |-> Txt("Unknown"),
     Thickness_mm |-> get_element_thickness(element, BuiltInParameter),
     MaterialVolume_m3 |-> NA,
     MaterialArea_m2 |-> element_info.area,
     ElementTotalVolume_m3 |-> element_info.volume,
     ElementTotalArea_m2 |-> element_info.area]

\* A mutant of _create_basic_element_record: the category is not looked at.
_create_basic_element_record_any(self, element, element_info, BuiltInParameter) ==
    << basic_record(self, element, element_info, BuiltInParameter) >>

_create_basic_element_record(self, element, element_info, BuiltInParameter) ==
    IF element.Category # None /\ element.Category.Name \in relevant_categories
    THEN << basic_record(self, element, element_info, BuiltInParameter) >>
    ELSE <<>>

----------------------------------------------------------------------------
(* MaterialDataExtractor. self is the extractor's debug_info; an operator  *)
(* that updates counters returns [data, self].                             *)

\* debug_stair_parameters and the three dumps after it, for a stair: Raised
\* when the Definition of the element's first parameter cannot be read (the
\* except branch then formats param_name, which is not bound yet)
debug_stair_parameters(element) ==
    IF ~is_stair_element(element) THEN None
    ELSE IF element.dbgFail THEN Raised
    ELSE None

\* A mutant of _process_element_layers: the Records are made from the last
\* layer to the first.
_process_element_layers_reversed(self, element, element_info, material_layers, BuiltInParameter) ==
    [data |-> [k \in 1..Len(material_layers) |->
                  _create_material_record(self, element, element_info,
                                          material_layers[Len(material_layers) + 1 - k],
                                          BuiltInParameter)],
     self |-> [self EXCEPT !.by_category_materials =
                  @ + Cardinality({k \in 1..Len(material_layers) :
                         StartsWithByCategory(
                             DictGet(material_layers[k], "MaterialId", Txt("")))})]]

\* A mutant of _process_element_layers: elements_with_layers is counted once
\* more for every layer.
_process_element_layers_counting(self, element, element_info, material_layers, BuiltInParameter) ==
    [data |-> [k \in 1..Len(material_layers) |->
                  _create_material_record(self, element, element_info,
                                          material_layers[k], BuiltInParameter)],
     self |-> [self EXCEPT !.elements_with_layers = @ + Len(material_layers),
                           !.by_category_materials =
                  @ + Cardinality({k \in 1..Len(material_layers) :
                         StartsWithByCategory(
                             DictGet(material_layers[k], "MaterialId", Txt("")))})]]

_process_element_layers(self, element, element_info, material_layers, BuiltInParameter) ==
    [data |-> [k \in 1..Len(material_layers) |->
                  _create_material_record(self, element, element_info,
                                          material_layers[k], BuiltInParameter)],
     self |-> [self EXCEPT !.by_category_materials =
                  @ + Cardinality({k \in 1..Len(material_layers) :
                         StartsWithByCategory(
                             DictGet(material_layers[k], "MaterialId", Txt("")))})]]

_process_element_fallback(self, element, element_info, BuiltInParameter) ==
    Bind(get_element_material_ids(element), LAMBDA material_ids :
        LET exists(material_id) == doc_GetElement(material_id) # None
            found == SelectSeq(material_ids, exists)
        IN  [k \in 1..Len(found) |->
                _create_material_record(self, element, element_info,
                    [LayerIndex |-> PyInt(0),
                     MaterialId |-> PyInt(found[k]),
                     MaterialName |-> IF Truthy(doc_GetElement(found[k]).Name)
                                      THEN doc_GetElement(found[k]).Name
                                      ELSE Txt("Unnamed Material"),
                     Thickness_mm |-> get_material_thickness(element, found[k],
                                                             BuiltInParameter)],
                    BuiltInParameter)])

_process_element(self, element, BuiltInParameter) ==
    IF element.Category = None THEN [data |-> <<>>, self |-> self]
    ELSE
    Bind([self EXCEPT !.elements_with_category = @ + 1,
                      !.stair_elements = IF is_stair_element(element) THEN @ + 1 ELSE @],
         LAMBDA counted :
    IF /\ is_stair_element(element)
       /\ counted.stair_elements <= 3
       /\ debug_stair_parameters(element) = Raised
    THEN [data |-> <<>>, self |-> [counted EXCEPT !.errors = @ + 1]]
    ELSE
    Bind(_get_element_info(counted, element, BuiltInParameter), LAMBDA element_info :
    Bind([counted EXCEPT
              !.elements_with_area = IF element_info.area # NA THEN @ + 1 ELSE @,
              !.elements_with_volume = IF element_info.volume # NA THEN @ + 1 ELSE @],
         LAMBDA tracked :
    Bind(get_material_layers(element, BuiltInParameter), LAMBDA material_layers :
        IF material_layers # <<>>
        THEN _process_element_layers(
                 [tracked EXCEPT !.elements_with_layers = @ + 1],
                 element, element_info, material_layers, BuiltInParameter)
        ELSE Bind(_process_element_fallback(tracked, element, element_info,
                                            BuiltInParameter), LAMBDA fallback_data :
                 IF fallback_data # <<>>
                 THEN [data |-> fallback_data, self |-> tracked]
                 ELSE [data |-> _create_basic_element_record(tracked, element,
                                    element_info, BuiltInParameter),
                       self |-> tracked])))))

BaseFieldnames ==
    <<"ElementId", "ElementCategory", "ExportGUID", "FamilyName", "FamilyType", "Type",
      "TypeId", "Width_mm", "Height_mm", "LayerIndex", "MaterialId", "MaterialName",
      "MaterialClass", "Thickness_mm", "MaterialVolume_m3", "MaterialArea_m2",
      "ElementTotalVolume_m3", "ElementTotalArea_m2">>

all_fieldnames == BaseFieldnames \o StairFieldnames

\* the normalized_record save_to_csv writes for a record
normalized_record(record) ==
    [field \in {all_fieldnames[k] : k \in 1..Len(all_fieldnames)} |->
        DictGet(record, field, NA)]

\* MaterialDataExtractor.__init__
NewDebugInfo ==
    [total_elements |-> 0, elements_with_category |-> 0, elements_with_materials |-> 0,
     elements_with_layers |-> 0, elements_processed |-> 0, errors |-> 0,
     elements_with_area |-> 0, elements_with_volume |-> 0, by_category_materials |-> 0,
     stair_elements |-> 0]

----------------------------------------------------------------------------
(* The csv module and the file written. A text is held as the sequence of  *)
(* its pieces: each character the csv module looks at (the delimiter, the  *)
(* quote character, carriage return and line feed) is a piece of its own,  *)
(* and a run of other characters is one piece.                             *)

CSV_DELIMITER == ";"
QuoteChar == "\""
LineFeed == "\n"
CarriageReturn == "\r"

\* the pieces of a text of the model
Pieces(s) ==
    CASE s = "" -> <<>>
      [] s = "Paint; White" -> <<"Paint", CSV_DELIMITER, " White">>
      [] s = "Wall 8\" Block\nExterior" ->
             <<"Wall 8", QuoteChar, " Block", LineFeed, "Exterior">>
      [] OTHER -> <<s>>

\* repr(x) of the float x = k / 10^p: the shortest decimal text, with at
\* least one digit after the point
FloatRepr(k, p) ==
    Bind(RStrip(FixedFormat(k, p, IF p = 0 THEN 1 ELSE p), "0"), LAMBDA cs :
        IF cs[Len(cs)] = "." THEN Append(cs, "0") ELSE cs)

\* the text the csv writer makes of a field value: None is written as the
\* empty text, a float by repr, everything else by str
RECURSIVE FieldText(_)
FieldText(value) ==
    Bind(value, LAMBDA v :
        IF v = None THEN <<>>
        ELSE IF v.py = "int" THEN PyStr(v.n).chars
        ELSE IF v.py = "float" THEN FloatRepr(v.n, v.p)
        ELSE IF IsCharStr(v) THEN v.chars
        ELSE IF "arg" \in DOMAIN v THEN Pieces(v.text) \o FieldText(v.arg)
        ELSE Pieces(v.text))

\* csv.QUOTE_MINIMAL with doublequote: a field is quoted when it holds the
\* delimiter, the quote character or a character of the line terminator
csv_needs_quotes(text, lineterminator) ==
    \E k \in 1..Len(text) :
        \/ text[k] \in {CSV_DELIMITER, QuoteChar}
        \/ \E j \in 1..Len(lineterminator) : text[k] = lineterminator[j]

RECURSIVE csv_double_quotes(_, _)
csv_double_quotes(text, k) ==
    IF k = 0 THEN <<>>
    ELSE csv_double_quotes(text, k - 1)
            \o (IF text[k] = QuoteChar THEN <<QuoteChar, QuoteChar>> ELSE <<text[k]>>)

\* A mutant of csv_field: no field is quoted.
csv_field_unquoted(value, lineterminator) ==
    FieldText(value)

csv_field(value, lineterminator) ==
    Bind(FieldText(value), LAMBDA text :
        IF csv_needs_quotes(text, lineterminator)
        THEN <<QuoteChar>> \o csv_double_quotes(text, Len(text)) \o <<QuoteChar>>
        ELSE text)

\* writer.writerow(row): the fields joined by the delimiter, then the line
\* terminator
RECURSIVE csv_join(_, _, _)
csv_join(row, k, lineterminator) ==
    IF k = 0 THEN <<>>
    ELSE Bind(csv_join(row, k - 1, lineterminator), LAMBDA before :
             (IF k = 1 THEN before ELSE Append(before, CSV_DELIMITER))
                 \o csv_field(row[k], lineterminator))

csv_writerow(row, lineterminator) ==
    csv_join(row, Len(row), lineterminator) \o lineterminator

\* A mutant of headers: the header of an empty list lacks the stair columns.
headers_without_stairs ==
    BaseFieldnames

\* the else branch of save_to_csv: the header written for an empty list
headers ==
    <<"ElementId", "ElementCategory", "ExportGUID", "FamilyName", "FamilyType", "Type",
      "TypeId", "Width_mm", "Height_mm", "LayerIndex", "MaterialId", "MaterialName",
      "MaterialClass", "Thickness_mm", "MaterialVolume_m3", "MaterialArea_m2",
      "ElementTotalVolume_m3", "ElementTotalArea_m2", "NumberOfRisers",
      "RiserHeight_mm", "TreadDepth_mm", "StairWidth_mm", "TotalHeight_mm">>

\* the line terminator save_to_csv gives its writers
SaveLineTerminator == <<LineFeed>>

\* DictWriter.writeheader(), or writer.writerow(headers) for an empty list
csv_header(material_data) ==
    LET names == IF material_data # <<>> THEN all_fieldnames ELSE headers
    IN  csv_writerow([k \in 1..Len(names) |-> Txt(names[k])], SaveLineTerminator)

\* DictWriter.writerow(material): the values in the order of the fieldnames
csv_dictrow(material) ==
    csv_writerow([k \in 1..Len(all_fieldnames) |-> material[all_fieldnames[k]]],
                 SaveLineTerminator)

\* what the file holds once the header and the first n Records are written
RECURSIVE csv_written(_, _)
csv_written(material_data, n) ==
    IF n = 0 THEN csv_header(material_data)
    ELSE Bind(csv_written(material_data, n - 1), LAMBDA before :
             before \o csv_dictrow(normalized_record(material_data[n])))

\* A mutant of save_to_csv: the header row is counted as a Record.
save_to_csv_counting_header(material_data) ==
    [csvfile |-> csv_written(material_data, Len(material_data)),
     normalized_data |-> [k \in 1..Len(material_data) |->
                             normalized_record(material_data[k])],
     result |-> [file_path |-> Txt("export.csv"), count |-> Len(material_data) + 1],
     material_data |-> material_data]

\* A mutant of save_to_csv: the missing and empty fields are filled with
\* "N/A" in the Records themselves.
save_to_csv_in_place(material_data) ==
    [csvfile |-> csv_written(material_data, Len(material_data)),
     normalized_data |-> [k \in 1..Len(material_data) |->
                             normalized_record(material_data[k])],
     result |-> [file_path |-> Txt("export.csv"), count |-> Len(material_data)],
     material_data |-> [k \in 1..Len(material_data) |->
                           [field \in DOMAIN normalized_record(material_data[k]) |->
                               IF Truthy(normalized_record(material_data[k])[field])
                               THEN normalized_record(material_data[k])[field]
                               ELSE NA]]]

\* save_to_csv(material_data) with the dialog answered OK and no failure:
\* the file and the (file_path, count) returned
save_to_csv(material_data) ==
    [csvfile |-> csv_written(material_data, Len(material_data)),
     normalized_data |-> [k \in 1..Len(material_data) |->
                             normalized_record(material_data[k])],
     result |-> [file_path |-> Txt("export.csv"), count |-> Len(material_data)],
     material_data |-> material_data]

\* csv.reader over the pieces of a file, which it reads line by line (a
\* line ends at a line feed): st is the parser's state. A line break inside quotes is
\* part of the field; a blank line gives an empty row; a character after a
\* bare carriage return is an error.
csv_reader_step(st, c) ==
    IF st.state = "error" THEN st
    ELSE IF st.state = "quoted"
    THEN IF c = QuoteChar THEN [st EXCEPT !.state = "quote_in_quoted"]
         ELSE [st EXCEPT !.field = Append(@, c)]
    ELSE IF st.state = "quote_in_quoted" /\ c = QuoteChar
    THEN [st EXCEPT !.state = "quoted", !.field = Append(@, c)]
    ELSE IF st.state = "eat_crnl"
    THEN IF c = LineFeed THEN [st EXCEPT !.state = "start_record"]
         ELSE IF c = CarriageReturn THEN st
         ELSE [st EXCEPT !.state = "error"]
    ELSE IF st.state = "start_record" /\ c \in {LineFeed, CarriageReturn}
    THEN [st EXCEPT !.state = IF c = LineFeed THEN "start_record" ELSE "eat_crnl",
                    !.rows = Append(@, <<>>)]
    ELSE IF c \in {LineFeed, CarriageReturn}
    THEN [st EXCEPT !.state = IF c = LineFeed THEN "start_record" ELSE "eat_crnl",
                    !.field = <<>>, !.row = <<>>,
                    !.rows = Append(@, Append(st.row, st.field))]
    ELSE IF c = CSV_DELIMITER
    THEN [st EXCEPT !.state = "start_field", !.field = <<>>, !.row = Append(@, st.field)]
    ELSE IF c = QuoteChar /\ st.state \in {"start_record", "start_field"}
    THEN [st EXCEPT !.state = "quoted"]
    ELSE [st EXCEPT !.state = "in_field", !.field = Append(@, c)]

\* the reader's state after the pieces from..to of the stream, read in
\* order (the range is halved to keep the evaluation shallow)
RECURSIVE csv_reader_run(_, _, _, _)
csv_reader_run(st, stream, from, to) ==
    IF to < from THEN st
    ELSE IF from = to THEN csv_reader_step(st, stream[from])
    ELSE Bind((from + to) \div 2, LAMBDA mid :
         Bind(csv_reader_run(st, stream, from, mid), LAMBDA half :
             csv_reader_run(half, stream, mid + 1, to)))

\* list(csv.reader(f, delimiter=';')): the rows, each the texts of its
\* fields, or the reader's error
csv_reader(stream) ==
    Bind(csv_reader_run([state |-> "start_record", field |-> <<>>, row |-> <<>>,
                         rows |-> <<>>], stream, 1, Len(stream)), LAMBDA st :
        [error |-> st.state = "error",
         rows |-> IF st.state \in {"start_record", "eat_crnl", "error"} THEN st.rows
                  ELSE Append(st.rows, Append(st.row, st.field))])

----------------------------------------------------------------------------
(* The run: main, extract_all_materials and save_to_csv step by step *)

\* the file at the destination: none, or its content
NoFile == [exists |-> FALSE, data |-> <<>>]
File(data) == [exists |-> TRUE, data |-> data]

\* main's except branch: the text of the "Export Error" dialog
export_error(message) == Fmt("An error occurred during export:\n\n", message)

\* extract_all_materials: the elements are collected
\* main: the confirmation dialog is answered Yes; the extractor is made
Confirm ==
    /\ pc = "start"
    /\ pc' = "constructed"
    /\ UNCHANGED <<elements, pos, material_usage_data, processed_elements,
                   material_records, debug_info, element_data, normalized_data,
                   save_result, exp_vars, fmt_vars, res_vars, lst_vars>>

\* main: the confirmation dialog is answered No
Decline ==
    /\ pc = "start"
    /\ dialogs' = Append(dialogs, "Export Cancelled")
    /\ pc' = "declined"
    /\ UNCHANGED <<elements, pos, material_usage_data, processed_elements,
                   material_records, debug_info, element_data, normalized_data,
                   save_result, csvfile, error_msg, run, first_data, fmt_vars,
                   res_vars, lst_vars>>

Collect ==
    /\ pc = "constructed"
    /\ debug_info' = [debug_info EXCEPT !.total_elements = Len(elements)]
    /\ pc' = "loop"
    /\ UNCHANGED <<elements, pos, material_usage_data, processed_elements,
                   material_records, element_data, normalized_data, save_result,
                   exp_vars, fmt_vars, res_vars, lst_vars>>

\* extract_all_materials: the collector raises; the exception is wrapped,
\* reaches main and is shown
CollectFails ==
    /\ pc = "constructed"
    /\ error_msg' = export_error(Fmt("Error collecting comprehensive material data: ",
                                     Txt("exception")))
    /\ dialogs' = Append(dialogs, "Export Error")
    /\ pc' = "collect_error"
    /\ UNCHANGED <<elements, pos, material_usage_data, processed_elements,
                   material_records, debug_info, element_data, normalized_data,
                   save_result, csvfile, run, first_data, fmt_vars, res_vars, lst_vars>>

\* extract_all_materials: one iteration of the loop over the elements
ProcessNext ==
    /\ pc = "loop"
    /\ pos < Len(elements)
    /\ \E result \in {_process_element(debug_info, elements[pos + 1],
                                        HostBuiltInParameter)} :
          /\ element_data' = result.data
          /\ IF result.data # <<>>
             THEN /\ material_usage_data' = material_usage_data \o result.data
                  /\ material_records' = material_records + Len(result.data)
                  /\ debug_info' = [result.self EXCEPT !.elements_with_materials = @ + 1]
             ELSE /\ debug_info' = result.self
                  /\ UNCHANGED <<material_usage_data, material_records>>
    /\ processed_elements' = processed_elements + 1
    /\ pos' = pos + 1
    /\ UNCHANGED <<elements, pc, normalized_data, save_result, exp_vars, fmt_vars,
                   res_vars, lst_vars>>

\* extract_all_materials returns material_usage_data
Finish ==
    /\ pc = "loop"
    /\ pos = Len(elements)
    /\ pc' = "extracted"
    /\ UNCHANGED <<elements, pos, material_usage_data, processed_elements,
                   material_records, debug_info, element_data, normalized_data,
                   save_result, exp_vars, fmt_vars, res_vars, lst_vars>>

\* extract_all_materials is called once more, on the same extractor or on
\* a new one; the Records of the first call are kept for comparison
ExtractAgain(fresh) ==
    /\ pc = "extracted"
    /\ run = 1
    /\ run' = 2
    /\ first_data' = material_usage_data
    /\ material_usage_data' = <<>>
    /\ pos' = 0
    /\ element_data' = <<>>
    /\ IF fresh
       THEN /\ processed_elements' = 0
            /\ material_records' = 0
            /\ debug_info' = NewDebugInfo
       ELSE UNCHANGED <<processed_elements, material_records, debug_info>>
    /\ pc' = "constructed"
    /\ UNCHANGED <<elements, normalized_data, save_result, csvfile, error_msg,
                   dialogs, fmt_vars, res_vars, lst_vars>>

\* main: no Record was extracted, nothing is saved
NoData ==
    /\ pc = "extracted"
    /\ material_usage_data = <<>>
    /\ dialogs' = Append(dialogs, "No Data")
    /\ pc' = "nodata"
    /\ UNCHANGED <<elements, pos, material_usage_data, processed_elements,
                   material_records, debug_info, element_data, normalized_data,
                   save_result, csvfile, error_msg, run, first_data, fmt_vars,
                   res_vars, lst_vars>>

\* save_to_csv, the dialog answered OK: the file written and (path, count)
SaveToCsv ==
    /\ pc = "extracted"
    /\ material_usage_data # <<>>
    /\ \E saved \in {save_to_csv(material_usage_data)} :
          /\ csvfile' = File(saved.csvfile)
          /\ normalized_data' = saved.normalized_data
          /\ save_result' = saved.result
          /\ material_usage_data' = saved.material_data
    /\ dialogs' = Append(dialogs, "Export Success")
    /\ pc' = "saved"
    /\ UNCHANGED <<elements, pos, processed_elements, material_records, debug_info,
                   element_data, error_msg, run, first_data, fmt_vars, res_vars,
                   lst_vars>>

\* save_to_csv, the dialog answered OK: open() raises, nothing is written
SaveOpenFails ==
    /\ pc = "extracted"
    /\ material_usage_data # <<>>
    /\ error_msg' = export_error(Fmt("Error saving CSV file: ", Txt("exception")))
    /\ dialogs' = Append(dialogs, "Export Error")
    /\ pc' = "save_error"
    /\ UNCHANGED <<elements, pos, material_usage_data, processed_elements,
                   material_records, debug_info, element_data, normalized_data,
                   save_result, csvfile, run, first_data, fmt_vars, res_vars, lst_vars>>

\* save_to_csv, the dialog answered OK: the file is opened (created or
\* emptied) and a write raises, before the header or after the header and
\* n Records; the with statement closes the file and the exception goes on
SaveWriteFails ==
    /\ pc = "extracted"
    /\ material_usage_data # <<>>
    /\ \E n \in -1..(Len(material_usage_data) - 1) :
          csvfile' = File(IF n = -1 THEN <<>>
                          ELSE csv_written(material_usage_data, n))
    /\ error_msg' = export_error(Fmt("Error saving CSV file: ", Txt("exception")))
    /\ dialogs' = Append(dialogs, "Export Error")
    /\ pc' = "save_error"
    /\ UNCHANGED <<elements, pos, material_usage_data, processed_elements,
                   material_records, debug_info, element_data, normalized_data,
                   save_result, run, first_data, fmt_vars, res_vars, lst_vars>>

\* A mutant of SaveCancelled: main shows no dialog when the save dialog was
\* cancelled.
SaveCancelled_silent ==
    /\ pc = "extracted"
    /\ material_usage_data # <<>>
    /\ save_result' = [file_path |-> None, count |-> 0]
    /\ pc' = "cancelled"
    /\ UNCHANGED <<elements, pos, material_usage_data, processed_elements,
                   material_records, debug_info, element_data, normalized_data,
                   exp_vars, fmt_vars, res_vars, lst_vars>>

\* save_to_csv, the dialog cancelled: (None, 0)
SaveCancelled ==
    /\ pc = "extracted"
    /\ material_usage_data # <<>>
    /\ save_result' = [file_path |-> None, count |-> 0]
    /\ dialogs' = Append(dialogs, "Export Cancelled")
    /\ pc' = "cancelled"
    /\ UNCHANGED <<elements, pos, material_usage_data, processed_elements,
                   material_records, debug_info, element_data, normalized_data,
                   csvfile, error_msg, run, first_data, fmt_vars, res_vars, lst_vars>>

----------------------------------------------------------------------------
(* The material-list export (pyrevit_hello.extension, "Generate Material   *)
(* List" push button): export_material_list.                               *)

\* the classes whose elements are listed with their layers, in the order of
\* the loop
SystemFamilyClasses == <<"Wall", "Floor", "RoofBase", "Ceiling">>

\* FilteredElementCollector(doc).OfClass(cls).ToElements()
OfClass(document, cls) == SelectSeq(document, LAMBDA el : el.cls = cls)

\* etype.FamilyName, an attribute every element type of the host has
FamilyNameOf(etype) == Fmt("Family of ", Txt(etype.Name))

ListHeader ==
    <<Txt("ElementId"), Txt("Category"), Txt("Family"), Txt("Type"), Txt("Material"),
      Txt("Thickness (mm)"), Txt("Area (m2)"), Txt("Volume (m3)")>>

\* round(UnitUtils.ConvertFromInternalUnits(p.AsDouble(), unit), 2) if p and
\* p.HasValue else ""
list_quantity(param, unit_type) ==
    IF param # None /\ param.HasValue
    THEN IF param.raises THEN Raised
         ELSE PyRound(UnitUtils_ConvertFromInternalUnits(param.AsDouble, unit_type), 2)
    ELSE Txt("")

\* what an element puts in front of and behind the material columns of its
\* rows; reading a parameter can raise, and an element without a category
\* makes el.Category.Name raise
list_columns(el, default_family) ==
    Bind(el.typ, LAMBDA etype :
        IF \/ el.Category = None
           \/ list_quantity(Lookup(el.named, "Area"), SquareMeters) = Raised
           \/ list_quantity(Lookup(el.named, "Volume"), CubicMeters) = Raised
        THEN Raised
        ELSE [head |-> <<PyInt(el.Id), Txt(el.Category.Name),
                         IF etype # None THEN FamilyNameOf(etype) ELSE Txt(default_family),
                         IF etype # None THEN Txt(etype.Name) ELSE Txt("No Type")>>,
              tail |-> <<list_quantity(Lookup(el.named, "Area"), SquareMeters),
                         list_quantity(Lookup(el.named, "Volume"), CubicMeters)>>])

\* A mutant of system_family_rows: a layer with an unset material is left
\* out.
system_family_rows_skipping_unset(el) ==
    Bind(list_columns(el, "System Family"), LAMBDA cols :
        IF cols = Raised THEN [raised |-> TRUE, rows |-> <<>>]
        ELSE IF el.typ # None /\ el.typ.hostAttr /\ el.typ.cs # None
        THEN IF el.typ.cs.failAt > 0 THEN [raised |-> TRUE, rows |-> <<>>]
             ELSE Bind(SelectSeq(el.typ.cs.layers,
                                 LAMBDA layer : layer.MaterialId # InvalidElementId),
                       LAMBDA layers :
                  [raised |-> FALSE,
                   rows |-> [k \in 1..Len(layers) |->
                       cols.head
                           \o <<IF doc_GetElement(layers[k].MaterialId) # None
                                THEN doc_GetElement(layers[k].MaterialId).Name
                                ELSE Txt("No Material"),
                                PyRound(UnitUtils_ConvertFromInternalUnits(
                                            layers[k].Width, Millimeters), 1)>>
                           \o cols.tail]])
        ELSE [raised |-> FALSE,
              rows |-> << cols.head \o <<Txt(""), Txt("")>> \o cols.tail >>])

\* the rows of an element of a system family: one per layer of the compound
\* structure of its type, or one with blank material and thickness when
\* there is no compound structure; raised: the element makes the export
\* raise
system_family_rows(el) ==
    Bind(list_columns(el, "System Family"), LAMBDA cols :
        IF cols = Raised THEN [raised |-> TRUE, rows |-> <<>>]
        ELSE IF el.typ # None /\ el.typ.hostAttr /\ el.typ.cs # None
        THEN IF el.typ.cs.failAt > 0 THEN [raised |-> TRUE, rows |-> <<>>]
             ELSE [raised |-> FALSE,
                   rows |-> [k \in 1..Len(el.typ.cs.layers) |->
                       LET layer == el.typ.cs.layers[k]
                           mat == IF layer.MaterialId # InvalidElementId
                                  THEN doc_GetElement(layer.MaterialId) ELSE None
                       IN  cols.head
                               \o <<IF mat # None THEN mat.Name ELSE Txt("No Material"),
                                    PyRound(UnitUtils_ConvertFromInternalUnits(
                                                layer.Width, Millimeters), 1)>>
                               \o cols.tail]]
        ELSE [raised |-> FALSE,
              rows |-> << cols.head \o <<Txt(""), Txt("")>> \o cols.tail >>])

\* the row of a family instance
instance_rows(inst) ==
    Bind(list_columns(inst, "FamilyInstance"), LAMBDA cols :
        IF cols = Raised THEN [raised |-> TRUE, rows |-> <<>>]
        ELSE [raised |-> FALSE,
              rows |-> << cols.head \o <<Txt(""), Txt("")>> \o cols.tail >>])

\* the elements in the order export_material_list visits them
RECURSIVE ListOrderFrom(_, _)
ListOrderFrom(document, c) ==
    IF c > Len(SystemFamilyClasses) THEN OfClass(document, "FamilyInstance")
    ELSE OfClass(document, SystemFamilyClasses[c]) \o ListOrderFrom(document, c + 1)

ListOrder(document) == ListOrderFrom(document, 1)

\* the line terminator of csv.writer(f, delimiter=";"): the default of the
\* csv module, written as it is to a file opened with newline=""
ListLineTerminator == <<CarriageReturn, LineFeed>>

\* writer.writerows(rows)
RECURSIVE csv_writerows(_, _, _)
csv_writerows(rows, n, lineterminator) ==
    IF n = 0 THEN <<>>
    ELSE Bind(csv_writerows(rows, n - 1, lineterminator), LAMBDA before :
             before \o csv_writerow(rows[n], lineterminator))

\* export_material_list starts: rows holds the header
\* the dialogs after main has shown the one with this title, when it is main
\* that called export_material_list
ShownByListMain(title) ==
    IF lst_answer = "Yes" THEN Append(lst_dialogs, title) ELSE lst_dialogs

ListStart ==
    /\ lst_pc = "start"
    /\ lst_rows' = <<ListHeader>>
    /\ lst_pc' = "rows"
    /\ UNCHANGED <<lst_elements, lst_engine, lst_pos, lst_file, lst_result, lst_answer,
                   lst_dialogs, fmt_vars, res_vars, ext_vars, exp_vars>>

\* one iteration of the loops over the elements: the rows of the next
\* element are appended, or the element makes the export raise
ListElement ==
    /\ lst_pc = "rows"
    /\ lst_pos < Len(ListOrder(lst_elements))
    /\ \E made \in {IF ListOrder(lst_elements)[lst_pos + 1].cls = "FamilyInstance"
                    THEN instance_rows(ListOrder(lst_elements)[lst_pos + 1])
                    ELSE system_family_rows(ListOrder(lst_elements)[lst_pos + 1])} :
          IF made.raised
          THEN /\ lst_pc' = "error"
               /\ lst_result' = Fmt("Error during material export: ", Txt("exception"))
               /\ lst_dialogs' = ShownByListMain("Export Error")
               /\ UNCHANGED <<lst_rows, lst_pos>>
          ELSE /\ lst_rows' = lst_rows \o made.rows
               /\ lst_pos' = lst_pos + 1
               /\ UNCHANGED <<lst_pc, lst_result, lst_dialogs>>
    /\ UNCHANGED <<lst_elements, lst_engine, lst_file, lst_answer, fmt_vars, res_vars,
                   ext_vars, exp_vars>>

\* the file is opened and written, and (out_path, number of rows without
\* the header) is returned; an engine whose open() has no newline and
\* encoding arguments (Python 2) raises instead
ListSave ==
    /\ lst_pc = "rows"
    /\ lst_pos = Len(ListOrder(lst_elements))
    /\ IF lst_engine = "python2"
       THEN /\ lst_pc' = "error"
            /\ lst_result' = Fmt("Error during material export: ", Txt("exception"))
            /\ lst_dialogs' = ShownByListMain("Export Error")
            /\ UNCHANGED lst_file
       ELSE /\ lst_file' = File(csv_writerows(lst_rows, Len(lst_rows), ListLineTerminator))
            /\ lst_result' = [file_path |-> Txt("~/Documents/RevitFamilies.csv"),
                              count |-> Len(lst_rows) - 1]
            /\ lst_dialogs' = ShownByListMain("Export Complete")
            /\ lst_pc' = "done"
    /\ UNCHANGED <<lst_elements, lst_engine, lst_pos, lst_rows, lst_answer, fmt_vars,
                   res_vars, ext_vars, exp_vars>>

\* the names the script's imports bind (lines 9-18): the modules named in
\* import statements, the three names taken from System.Windows.Forms, and
\* what the star import takes from Autodesk.Revit.DB
ScriptNames ==
    {"forms", "csv", "os", "clr", "MessageBox", "MessageBoxButtons", "MessageBoxIcon",
     "FilteredElementCollector", "Wall", "Floor", "RoofBase", "Ceiling",
     "FamilyInstance", "UnitUtils", "UnitTypeId", "ElementId"}

\* main up to the call of export_material_list: the confirmation dialog is
\* answered, then "result == System.Windows.Forms.DialogResult.Yes" is
\* evaluated; a name that is not bound raises NameError, which main's
\* except branch shows as the "Export Error" dialog
ListMainAnswer ==
    /\ lst_pc = "main"
    /\ \E answer \in {"Yes", "No"} :
          /\ lst_answer' = answer
          /\ IF "System" \notin ScriptNames
             THEN /\ lst_dialogs' = Append(lst_dialogs, "Export Error")
                  /\ lst_pc' = "main_error"
             ELSE IF answer = "Yes"
             THEN /\ lst_pc' = "start"
                  /\ UNCHANGED lst_dialogs
             ELSE /\ lst_pc' = "main_done"
                  /\ UNCHANGED lst_dialogs
    /\ UNCHANGED <<lst_elements, lst_engine, lst_pos, lst_rows, lst_file, lst_result,
                   fmt_vars, res_vars, ext_vars, exp_vars>>

----------------------------------------------------------------------------
(* Specification SpecFormat: format_number applied to bounded inputs.      *)
(* Numeric inputs are multiples of a quarter (exact in binary, so that     *)
(* Python rounds them half to even), given with two fractional digits.     *)

MaxQuarters == 50
MaxDecimals == 5

FormatValues ==
    {Float(25 * q, 2) : q \in -MaxQuarters..MaxQuarters}
        \cup {None, NA, Txt("abc"), Chars(<<"1", "2", ",", "5">>), Chars(<<"1", "2">>)}

IdleRes == /\ res_element = None /\ res_builtin = <<>> /\ res_unit = None
           /\ res_fallback = <<>> /\ res_enum = {} /\ res_call = "none"
           /\ res_result = Pending
IdleExt == /\ elements = <<>> /\ pos = 0 /\ material_usage_data = <<>>
           /\ processed_elements = 0 /\ material_records = 0
           /\ debug_info = None /\ element_data = <<>> /\ pc = "idle"
           /\ normalized_data = <<>> /\ save_result = None
           /\ csvfile = NoFile /\ error_msg = None /\ run = 0 /\ first_data = None
           /\ dialogs = <<>>
IdleFmt == /\ fmt_value = None /\ fmt_decimals = 0 /\ fmt_result = Pending
           /\ fmt_again = Pending
IdleLst == /\ lst_elements = <<>> /\ lst_engine = "none" /\ lst_pc = "idle"
           /\ lst_pos = 0 /\ lst_rows = <<>> /\ lst_file = NoFile /\ lst_result = None
           /\ lst_answer = "none" /\ lst_dialogs = <<>>

InitFormat ==
    /\ fmt_value \in FormatValues
    /\ fmt_decimals \in 0..MaxDecimals
    /\ fmt_result = Pending
    /\ fmt_again = Pending
    /\ IdleRes
    /\ IdleExt
    /\ IdleLst

FormatNumber ==
    /\ fmt_result = Pending
    /\ fmt_result' = format_number(fmt_value, fmt_decimals)
    /\ UNCHANGED <<fmt_value, fmt_decimals, fmt_again, res_vars, ext_vars, exp_vars,
                   lst_vars>>

\* the result is formatted again, as _create_material_record does with the
\* area, volume and thickness it is given
FormatAgain ==
    /\ fmt_result # Pending
    /\ fmt_again = Pending
    /\ fmt_again' = format_number(fmt_result, fmt_decimals)
    /\ UNCHANGED <<fmt_value, fmt_decimals, fmt_result, res_vars, ext_vars, exp_vars,
                   lst_vars>>

NextFormat ==
    \/ FormatNumber
    \/ FormatAgain

SpecFormat == InitFormat /\ [][NextFormat]_vars

\* The text the formatting contract describes for the number k / 10^p at d
\* decimals: the rounded value, integer part in full, the fractional digits
\* without their trailing zeros, a comma between them when any remain.
RoundedCommaText(k, p, d) ==
    LET s == Scaled(k, p, d)
        intp == NatStr(s \div Pow10(d))
        frac == IF d = 0 THEN <<>> ELSE RStrip(LPad(NatStr(s % Pow10(d)), d), "0")
        body == IF frac = <<>> THEN intp ELSE intp \o <<",">> \o frac
    IN  IF k < 0 THEN <<"-">> \o body ELSE body

Unparsable == {Txt("abc"), Chars(<<"1", "2", ",", "5">>)}

FormatContractAt(value, decimals, result) ==
    /\ IsFloat(value) => result = Chars(RoundedCommaText(value.n, value.p, decimals))
    /\ value \in {None, NA} \cup Unparsable => result = NA

\* C4: for every numeric value and every decimal-place count >= 0,
\* format_number gives the value rounded to that many places with only the
\* trailing fractional zeros stripped (integer part unchanged), at least one
\* digit before the separator and a comma as the only separator; "N/A", None
\* and unparsable input give "N/A"; 12.5 at 5 decimals gives "12,5", 0 gives
\* "0" and None gives "N/A".
C4_FormatNumberContract ==
    fmt_result # Pending =>
        /\ FormatContractAt(fmt_value, fmt_decimals, fmt_result)
        /\ (fmt_value = Float(1250, 2) /\ fmt_decimals = DEFAULT_DECIMALS)
               => fmt_result = Chars(<<"1", "2", ",", "5">>)
        /\ (fmt_value = Float(0, 2) /\ fmt_decimals = DEFAULT_DECIMALS)
               => fmt_result = Chars(<<"0">>)

\* C4, the part that holds: the same contract for every decimal-place count
\* of at least one (a decimal point then stops the stripping of zeros).
C4_ContractFromOneDecimal ==
    (fmt_result # Pending /\ fmt_decimals >= 1) =>
        FormatContractAt(fmt_value, fmt_decimals, fmt_result)

\* C4, a state that refutes it: 10 at 0 decimals has given "1".
C4_FailingState ==
    /\ fmt_value = Float(1000, 2) /\ fmt_decimals = 0
    /\ fmt_result = Chars(<<"1">>)

C4_Witness ==
    /\ fmt_value = Float(1250, 2) /\ fmt_decimals = DEFAULT_DECIMALS
    /\ fmt_result = Chars(<<"1", "2", ",", "5">>)

\* the text holds the character c
HasChar(v, c) == IsCharStr(v) /\ \E k \in 1..Len(v.chars) : v.chars[k] = c

\* C25: format_number is idempotent on its own output: for every value and
\* the default precision, formatting the result again gives the same result;
\* a number already formatted with the comma separator (such as "12,5") is
\* not turned into "N/A".
C25_FormatNumberIdempotent ==
    (fmt_again # Pending /\ fmt_decimals = DEFAULT_DECIMALS) => fmt_again = fmt_result

\* C25, the part that holds: a result without a comma (a whole number or
\* "N/A") is its own formatting, at every precision of at least one.
C25_IdempotentWithoutComma ==
    (fmt_again # Pending /\ fmt_decimals >= 1 /\ ~HasChar(fmt_result, ","))
        => fmt_again = fmt_result

\* C25, what happens otherwise: a result with a comma is formatted to "N/A".
C25_CommaGivesNA ==
    (fmt_again # Pending /\ HasChar(fmt_result, ",")) => fmt_again = NA

\* C25, a state that refutes it: 12.5 at the default precision gave "12,5",
\* and "12,5" formatted again gave "N/A".
C25_FailingState ==
    /\ fmt_value = Float(1250, 2) /\ fmt_decimals = DEFAULT_DECIMALS
    /\ fmt_result = Chars(<<"1", "2", ",", "5">>)
    /\ fmt_again = NA


----------------------------------------------------------------------------
(* Specification SpecResolver: the resolvers applied to bounded elements.  *)
(* A slot is a place a parameter can sit: on the entity or on its type, by *)
(* built-in key or by name. At most MaxPresent slots hold a parameter, and *)
(* each parameter's value is particular to its slot.                       *)

MaxPresent == 2

SlotDesc ==
    << [o |-> "e", by |-> "bip", key |-> "WALL_ATTR_WIDTH_PARAM"],
       [o |-> "e", by |-> "bip", key |-> "GENERIC_THICKNESS"],
       [o |-> "e", by |-> "bip", key |-> "FAMILY_THICKNESS_PARAM"],
       [o |-> "t", by |-> "bip", key |-> "WALL_ATTR_WIDTH_PARAM"],
       [o |-> "t", by |-> "bip", key |-> "GENERIC_THICKNESS"],
       [o |-> "t", by |-> "bip", key |-> "FAMILY_THICKNESS_PARAM"],
       [o |-> "e", by |-> "name", key |-> "Thickness"],
       [o |-> "e", by |-> "name", key |-> "Width"],
       [o |-> "t", by |-> "name", key |-> "Thickness"],
       [o |-> "t", by |-> "name", key |-> "Width"],
       [o |-> "e", by |-> "name", key |-> "Area"],
       [o |-> "e", by |-> "bip", key |-> "HOST_VOLUME_COMPUTED"],
       [o |-> "t", by |-> "name", key |-> "Height"] >>

SlotText == << "text1", "text2", "text3", "text4", "text5", "text6", "text7",
               "text8", "text9", "text10", "text11", "text12", "text13" >>

Slots == 1..Len(SlotDesc)

UnitKinds == {"novalue", "raises", "double"}
TextKinds == {"novalue", "raises", "integer", "string", "empty"}

ParamOf(i, kind) ==
    CASE kind = "novalue" -> P_NoValue
      [] kind = "raises" -> P_Raises
      [] kind = "double" -> P_Double(100 * i, SlotText[i])
      [] kind = "integer" -> P_Integer(i)
      [] kind = "string" -> P_String(SlotText[i])
      [] kind = "empty" -> P_Empty

SlotTable(S, f, owner, by) ==
    LET mine == {i \in S : SlotDesc[i].o = owner /\ SlotDesc[i].by = by}
    IN  [key \in {SlotDesc[i].key : i \in mine} |->
            LET i == CHOOSE j \in mine : SlotDesc[j].key = key
            IN  ParamOf(i, f[i])]

ResolverElement(hasType, S, f) ==
    Element(1, None,
            IF hasType
            THEN ElementType(2, "Type", SlotTable(S, f, "t", "bip"),
                             SlotTable(S, f, "t", "name"), FALSE, None)
            ELSE None,
            SlotTable(S, f, "e", "bip"), SlotTable(S, f, "e", "name"),
            "Other", <<>>, FALSE)

AllBuiltin == {SlotDesc[i].key : i \in {j \in Slots : SlotDesc[j].by = "bip"}}

\* the candidate lists and the host enum a call is made with
ResolverInputs ==
    { [b |-> ThicknessBuiltin, f |-> ThicknessNames, enum |-> AllBuiltin],
      [b |-> ThicknessBuiltin, f |-> <<>>, enum |-> AllBuiltin],
      [b |-> SubSeq(ThicknessBuiltin, 1, 2), f |-> SubSeq(ThicknessNames, 1, 1),
       enum |-> AllBuiltin \ {"WALL_ATTR_WIDTH_PARAM"}] }

DimensionCalls == {"width", "height", "thickness", "area", "volume"}

PresentSets(hasType) ==
    {S \in SUBSET Slots : /\ Cardinality(S) <= MaxPresent
                          /\ (~hasType => \A i \in S : SlotDesc[i].o = "e")}

InitResolver ==
    /\ \E hasType \in BOOLEAN : \E S \in PresentSets(hasType) :
         \/ \E unit \in {None, Millimeters, UnsupportedUnit} :
            \E f \in [S -> IF unit = None THEN TextKinds ELSE UnitKinds] :
            \E in \in ResolverInputs :
               /\ res_element = ResolverElement(hasType, S, f)
               /\ res_builtin = in.b
               /\ res_fallback = in.f
               /\ res_enum = in.enum
               /\ res_unit = unit
               /\ res_call = "comprehensive"
         \/ \E f \in [S -> UnitKinds] :
            \E call \in DimensionCalls :
            \E enum \in {AllBuiltin, AllBuiltin \ {"WALL_ATTR_WIDTH_PARAM"}} :
               /\ res_element = ResolverElement(hasType, S, f)
               /\ res_builtin = <<>>
               /\ res_fallback = <<>>
               /\ res_enum = enum
               /\ res_unit = None
               /\ res_call = call
    /\ res_result = Pending
    /\ IdleFmt
    /\ IdleExt
    /\ IdleLst

ResolverResult ==
    CASE res_call = "comprehensive" ->
            get_parameter_value_comprehensive(res_element, res_builtin, res_unit,
                                              res_fallback, res_enum)
      [] res_call = "width" -> get_element_width(res_element, res_enum)
      [] res_call = "height" -> get_element_height(res_element, res_enum)
      [] res_call = "thickness" -> get_element_thickness(res_element, res_enum)
      [] res_call = "area" -> get_element_area_robust(res_element, res_enum)
      [] res_call = "volume" -> get_element_volume_robust(res_element, res_enum)

Resolve ==
    /\ res_result = Pending
    /\ res_result' = ResolverResult
    /\ UNCHANGED <<res_element, res_builtin, res_unit, res_fallback, res_enum,
                   res_call, fmt_vars, ext_vars, exp_vars,
                   lst_vars>>

NextResolver == Resolve

SpecResolver == InitResolver /\ [][NextResolver]_vars

\* The candidates of a call in the order of precedence: the built-in keys
\* on the entity, the built-in keys on the type, the names on the entity,
\* the names on the type.
CandList(keys, owner, by) == [k \in 1..Len(keys) |-> [o |-> owner, by |-> by, key |-> keys[k]]]

Candidates(builtin, fallback) ==
    CandList(builtin, "e", "bip") \o CandList(builtin, "t", "bip")
        \o CandList(fallback, "e", "name") \o CandList(fallback, "t", "name")

CandParam(element, c) ==
    LET owner == IF c.o = "e" THEN element ELSE element.typ
    IN  IF owner = None THEN None
        ELSE Lookup(IF c.by = "bip" THEN owner.bip ELSE owner.named, c.key)

\* the candidate names a parameter the host can look up
CandKnown(c, enum) == c.by = "bip" => c.key \in enum

\* the candidate is present, has a value, and its value can be read
CandResolves(element, c, enum) ==
    /\ CandKnown(c, enum)
    /\ LET prm == CandParam(element, c)
       IN  IF prm = None THEN FALSE ELSE prm.HasValue /\ ~prm.raises

\* the candidate fails: its key is unknown to the host, or its read raises
CandFails(element, c, enum) ==
    \/ ~CandKnown(c, enum)
    \/ LET prm == CandParam(element, c)
       IN  IF prm = None THEN FALSE ELSE prm.HasValue /\ prm.raises

MinOf(S) == CHOOSE k \in S : \A j \in S : k <= j

ResolvingIndexes ==
    LET cs == Candidates(res_builtin, res_fallback)
    IN  {k \in 1..Len(cs) : CandResolves(res_element, cs[k], res_enum)}

FirstResolvingValue ==
    LET cs == Candidates(res_builtin, res_fallback)
    IN  read_candidate(CandParam(res_element, cs[MinOf(ResolvingIndexes)]), res_unit)

Resolved == res_call = "comprehensive" /\ res_result # Pending

\* C1: get_parameter_value_comprehensive returns the value of the first
\* parameter that is present, has a value and can be read, searching the
\* built-in keys on the entity in list order, then the same keys on the type
\* entity, then the fallback names on the entity, then the fallback names on
\* the type entity; the result is one candidate's value, never a
\* combination.
C1_FirstMatchWins ==
    (Resolved /\ ResolvingIndexes # {}) => res_result = FirstResolvingValue

\* C1 witness: two candidates of different stages resolve (a fallback name
\* on the entity and a built-in key on the type) and the call returned the
\* value of the type's, the earlier stage.
C1_Witness ==
    /\ Resolved
    /\ Cardinality(ResolvingIndexes) = 2
    /\ LET cs == Candidates(res_builtin, res_fallback)
       IN  /\ cs[MinOf(ResolvingIndexes)].o = "t"
           /\ \E k \in ResolvingIndexes : cs[k].o = "e" /\ cs[k].by = "name"
    /\ res_result = FirstResolvingValue

\* C2: get_parameter_value_comprehensive returns "N/A" exactly when no
\* candidate key resolves to a present parameter with a value, on the entity
\* or on its type entity.
C2_SentinelIffUnresolved ==
    Resolved => (res_result = NA <=> ResolvingIndexes = {})

\* C2 witness: parameters are present under candidate keys, none of them
\* resolves, and the call returned "N/A".
C2_Witness ==
    /\ Resolved
    /\ res_result = NA
    /\ LET cs == Candidates(res_builtin, res_fallback)
       IN  \E k \in 1..Len(cs) : CandParam(res_element, cs[k]) # None

Usable(value) == value \notin {None, Raised, NoMatch, Txt(""), Chars(<<>>)}

\* the first resolving candidate is a text parameter without text: its
\* AsString() is empty and its AsValueString() is None
FirstResolvingHasNoText ==
    /\ ResolvingIndexes # {}
    /\ res_unit = None
    /\ LET cs == Candidates(res_builtin, res_fallback)
           prm == CandParam(res_element, cs[MinOf(ResolvingIndexes)])
       IN  prm.StorageType # "Integer" /\ ~Truthy(prm.AsString)
                                       /\ ~Truthy(prm.AsValueString)

\* C29: the resolver's result is always a usable field value:
\* get_parameter_value_comprehensive returns a non-empty string or "N/A",
\* never None and never an empty string; a candidate that is present but
\* yields no text does not end the search with an empty result.
C29_ResultAlwaysUsable == Resolved => Usable(res_result)

\* C29, the part that holds: the result is a non-empty text whenever the
\* first resolving candidate is not a text parameter without text.
C29_UsableUnlessNoText ==
    (Resolved /\ ~FirstResolvingHasNoText) => Usable(res_result)

\* C29, a state that refutes it: the first resolving candidate has no text,
\* a later candidate holds a text, and the call returned None.
C29_FailingState ==
    /\ Resolved
    /\ FirstResolvingHasNoText
    /\ LET cs == Candidates(res_builtin, res_fallback)
       IN  \E k \in ResolvingIndexes :
              /\ k > MinOf(ResolvingIndexes)
              /\ Truthy(CandParam(res_element, cs[k]).AsString)
    /\ res_result = None


----------------------------------------------------------------------------
(* Specification Spec: the extractor run on bounded documents.             *)

MaxLayers == 2
MaxElements == 3
MaxStairs == 4

\* layer widths in feet: 0.50 ft = 152.4 mm, 0.66 ft = 201.168 mm
LayerKinds ==
    {Layer(InvalidElementId, Float(50, 2)), Layer(1, Float(66, 2)), Layer(9, Float(50, 2))}

RECURSIVE SeqsUpTo(_, _)
SeqsUpTo(S, n) ==
    IF n = 0 THEN {<<>>}
    ELSE LET shorter == SeqsUpTo(S, n - 1)
         IN  shorter \cup {Append(s, x) : s \in {t \in shorter : Len(t) = n - 1}, x \in S}

\* the compound structures: up to MaxLayers layers, the walk completing or
\* failing at one of them
CompoundStructures ==
    {CompoundStructure(p[1], p[2]) :
        p \in {q \in SeqsUpTo(LayerKinds, MaxLayers) \X (0..MaxLayers) :
                  q[2] <= Len(q[1])}}

CategoryKinds == {"none", "walls", "walls_mat", "found", "found_mat", "stairs", "paths"}

CategoryOf(kind) ==
    CASE kind = "none" -> None
      [] kind = "walls" -> Category("Walls", None)
      [] kind = "walls_mat" -> Category("Walls", DocMaterials[1])
      [] kind = "found" -> Category("Structural Foundations", None)
      [] kind = "found_mat" -> Category("Structural Foundations", DocMaterials[2])
      [] kind = "stairs" -> Category("Stairs", None)
      [] kind = "paths" -> Category("Stair Paths", None)
      [] kind = "roofs" -> Category("Roofs", None)
      [] kind = "ceilings" -> Category("Ceilings", None)

\* the parameters of an element by built-in key: a thickness (0.50 ft,
\* "152,4", or 10 ft, "3048"), an area (100 sq ft, "9,29", or 10000 sq ft,
\* "929") and a volume (100 cu ft, "2,83")
BipTable(th, ar, vo) ==
    [key \in (IF th = "none" THEN {} ELSE {"WALL_ATTR_WIDTH_PARAM"})
              \cup (IF ar = "none" THEN {} ELSE {"HOST_AREA_COMPUTED"})
              \cup (IF vo = "none" THEN {} ELSE {"HOST_VOLUME_COMPUTED"}) |->
        CASE key = "WALL_ATTR_WIDTH_PARAM" ->
                 IF th = "frac" THEN P_Double(50, "0.5") ELSE P_Double(1000, "10")
          [] key = "HOST_AREA_COMPUTED" ->
                 IF ar = "frac" THEN P_Double(10000, "100") ELSE P_Double(1000000, "10000")
          [] key = "HOST_VOLUME_COMPUTED" -> P_Double(10000, "100")]

\* the parameters of an element by name: a family name, one that holds a
\* quote character and a newline, or one whose text is empty, and for a
\* stair its number of risers
NamedTable(fam, stair) ==
    [key \in (IF fam = "none" THEN {} ELSE {"Family"})
              \cup (IF stair THEN {"Actual Number of Risers"} ELSE {}) |->
        CASE key = "Family" -> IF fam = "text" THEN P_String("Basic Wall")
                               ELSE IF fam = "special"
                               THEN P_String("Wall 8\" Block\nExterior")
                               ELSE P_Empty
          [] key = "Actual Number of Risers" -> P_Integer(17)]

TypeKinds == {"none", "plain", "hostnone"}

\* the type element of an element: none, one without GetCompoundStructure,
\* one whose GetCompoundStructure() returns None, or one with layers
TypeOf(kind, cs) ==
    CASE kind = "none" -> None
      [] kind = "plain" -> ElementType(50, "Standard", EmptyTable, EmptyTable, FALSE, None)
      [] kind = "hostnone" -> ElementType(51, "Curtain", EmptyTable, EmptyTable, TRUE, None)
      [] kind = "layers" -> ElementType(52, "Generic - 200mm", EmptyTable, EmptyTable,
                                        TRUE, cs)

\* the API class: a wall has WallType; a foundation slab, whose type is a
\* host type, has FloorType; a roof has RoofType; a ceiling has none of the
\* three
ClassOf(cat, typ) ==
    IF cat \in {"walls", "walls_mat"} THEN "Wall"
    ELSE IF cat \in {"found", "found_mat"} /\ typ \in {"hostnone", "layers"} THEN "Floor"
    ELSE IF cat = "roofs" THEN "Roof"
    ELSE IF cat = "ceilings" THEN "Ceiling"
    ELSE "Other"

ElementDesc(cat, typ, cs, th, ar, vo, fam, mats, dbg) ==
    [cat |-> cat, typ |-> typ, cs |-> cs, th |-> th, ar |-> ar, vo |-> vo, fam |-> fam,
     mats |-> mats, dbg |-> dbg]

ElementOf(d, id) ==
    Element(id, CategoryOf(d.cat), TypeOf(d.typ, d.cs),
            BipTable(d.th, d.ar, d.vo),
            NamedTable(d.fam, d.cat \in {"stairs", "paths"}),
            ClassOf(d.cat, d.typ), d.mats, d.dbg)

StairKinds == {"stairs", "paths"}

\* what GetMaterialIds(False) returns
MaterialIdLists == {<<>>, <<1>>, <<1, 2>>, <<2, 2>>, <<9>>, <<InvalidElementId>>}

\* elements with layers
LayeredDescs ==
    {ElementDesc(cat, "layers", cs, "none", ar, "none", "none", <<>>, FALSE) :
        cat \in CategoryKinds \ StairKinds, cs \in CompoundStructures,
        ar \in {"none", "frac", "int"}}

\* roofs and ceilings with layers and an area
HostedDescs ==
    {ElementDesc(cat, "layers", cs, "none", ar, "none", "none", <<>>, FALSE) :
        cat \in {"roofs", "ceilings"},
        cs \in {c \in CompoundStructures : c.failAt = 0 /\ c.layers # <<>>},
        ar \in {"frac", "int"}}

\* elements without layers: the thickness and the material ids vary
FlatDescs ==
    {ElementDesc(cat, typ, None, th, "none", "none", "none", mats, dbg) :
        cat \in CategoryKinds, typ \in TypeKinds, th \in {"none", "frac", "int"},
        mats \in MaterialIdLists, dbg \in BOOLEAN}

\* elements without layers: the attributes vary
AttributeDescs ==
    {ElementDesc(cat, typ, None, th, ar, vo, fam, mats, FALSE) :
        cat \in {"walls", "found", "stairs"}, typ \in TypeKinds,
        th \in {"none", "frac"}, ar \in {"none", "frac", "int"},
        vo \in {"none", "frac"}, fam \in {"none", "text", "empty"},
        mats \in {<<>>, <<1>>}}

\* elements without layers whose texts hold the characters the csv module
\* treats specially
TextDescs ==
    {ElementDesc("walls", "plain", None, "none", "none", "none", fam, mats, FALSE) :
        fam \in {"text", "special"}, mats \in {<<1>>, <<2>>, <<1, 2>>}}

\* a stair has no host type, and only a stair has a debug dump that can fail
WellFormedDesc(d) ==
    /\ d.cat \in StairKinds => d.typ \in {"none", "plain"}
    /\ d.dbg => d.cat \in StairKinds

ElementDescs ==
    {d \in LayeredDescs \cup HostedDescs \cup FlatDescs \cup AttributeDescs
              \cup TextDescs :
        WellFormedDesc(d)}

\* the elements documents of several elements are made of
CoreDescs ==
    {ElementDesc("walls_mat", "layers",
                 CompoundStructure(<<Layer(1, Float(66, 2)),
                                     Layer(InvalidElementId, Float(50, 2))>>, 0),
                 "none", "frac", "none", "none", <<>>, FALSE),
     ElementDesc("walls", "layers",
                 CompoundStructure(<<Layer(1, Float(66, 2)), Layer(1, Float(50, 2))>>, 2),
                 "none", "none", "none", "none", <<>>, FALSE),
     ElementDesc("stairs", "plain", None, "none", "none", "none", "none", <<1>>, TRUE),
     ElementDesc("stairs", "plain", None, "none", "none", "none", "none", <<>>, FALSE),
     ElementDesc("none", "plain", None, "frac", "none", "none", "none", <<1>>, FALSE),
     ElementDesc("found", "plain", None, "none", "none", "none", "none", <<>>, FALSE)}

\* documents: one element of any kind; several core elements; stairs only
Documents ==
    {<<ElementOf(d, 101)>> : d \in ElementDescs}
        \cup {[k \in 1..Len(ds) |-> ElementOf(ds[k], 100 + k)] :
                 ds \in {s \in SeqsUpTo(CoreDescs, MaxElements) : Len(s) >= 2}}
        \cup {[k \in 1..MaxStairs |->
                  ElementOf(ElementDesc("stairs", "plain", None, "none", "none", "none",
                                        "none", <<>>, f[k]), 100 + k)] :
                 f \in [1..MaxStairs -> BOOLEAN]}

\* a file an earlier export left at the destination
OldFile == File(<<"old export", LineFeed>>)

\* a new MaterialDataExtractor over one of the documents, nothing saved yet
NewExtractor(documents) ==
    /\ elements \in documents
    /\ pos = 0
    /\ material_usage_data = <<>>
    /\ processed_elements = 0
    /\ material_records = 0
    /\ debug_info = NewDebugInfo
    /\ element_data = <<>>
    /\ normalized_data = <<>>
    /\ save_result = None
    /\ csvfile \in {NoFile, OldFile}
    /\ error_msg = None
    /\ run = 1
    /\ first_data = None
    /\ dialogs = <<>>
    /\ IdleFmt
    /\ IdleRes
    /\ IdleLst

\* main is entered: the confirmation dialog is up
Init ==
    /\ NewExtractor(Documents)
    /\ pc = "start"

Next ==
    \/ Confirm
    \/ Decline
    \/ Collect
    \/ CollectFails
    \/ ProcessNext
    \/ Finish
    \/ NoData
    \/ SaveToCsv
    \/ SaveOpenFails
    \/ SaveWriteFails
    \/ SaveCancelled

Spec == Init /\ [][Next]_vars

----------------------------------------------------------------------------
(* Properties of the extractor *)

\* an element has been processed: Cur is that element, element_data what
\* _process_element returned for it
\* where the run is before extract_all_materials has collected the elements
NotCollected == {"start", "declined", "constructed", "collect_error"}

Processed == pc \notin NotCollected /\ pos >= 1
Cur == elements[pos]

HasCategory(e) == e.Category # None

\* the layers of the compound structure of the element's type
LayersOf(e) ==
    IF e.typ = None THEN <<>>
    ELSE IF ~e.typ.hostAttr THEN <<>>
    ELSE IF e.typ.cs = None THEN <<>>
    ELSE e.typ.cs.layers

ZeroLayers(e) == LayersOf(e) = <<>>

\* reading the layers of the element fails at this layer (0: it does not)
WalkFailsAt(e) ==
    IF e.typ = None THEN 0
    ELSE IF ~e.typ.hostAttr THEN 0
    ELSE IF e.typ.cs = None THEN 0
    ELSE e.typ.cs.failAt

\* the k-th element is a stair whose debug dump is made and raises
DebugFails(k) ==
    /\ is_stair_element(elements[k])
    /\ elements[k].dbgFail
    /\ Cardinality({j \in 1..k : is_stair_element(elements[j])}) <= 3

LayerIndexesInOrder(data) == \A k \in 1..Len(data) : data[k].LayerIndex = PyInt(k - 1)

\* C5: for every entity with a category whose type entity has a compound
\* structure of N >= 1 layers, _process_element yields exactly N Records and
\* the k-th Record (k = 0..N-1) has LayerIndex k.
C5_OneRecordPerLayer ==
    (Processed /\ HasCategory(Cur) /\ Len(LayersOf(Cur)) >= 1) =>
        /\ Len(element_data) = Len(LayersOf(Cur))
        /\ LayerIndexesInOrder(element_data)

\* C5, the part that holds: the same when the walk over the layers completes.
C5_WhenWalkCompletes ==
    (Processed /\ HasCategory(Cur) /\ Len(LayersOf(Cur)) >= 1 /\ WalkFailsAt(Cur) = 0) =>
        /\ Len(element_data) = Len(LayersOf(Cur))
        /\ LayerIndexesInOrder(element_data)

\* C5, a state that refutes it: a wall of two layers, reading the second
\* layer raises, and two Records come out with LayerIndex 0 and -1.
C5_FailingState ==
    /\ Processed /\ HasCategory(Cur)
    /\ Len(LayersOf(Cur)) = 2 /\ WalkFailsAt(Cur) = 2
    /\ Len(element_data) = 2
    /\ element_data[1].LayerIndex = PyInt(0)
    /\ element_data[2].LayerIndex = PyInt(-1)
    /\ element_data[2].MaterialId = Txt("Error")

\* the valid material ids GetMaterialIds gives for the element, and those
\* among them that are materials of the document
ValidMaterialIds(e) ==
    {e.materialIds[k] : k \in 1..Len(e.materialIds)} \ {InvalidElementId}
ExistingMaterialIds(e) == ValidMaterialIds(e) \cap DOMAIN DocMaterials

\* a thickness resolves on the element or its type
ThicknessResolves(e) ==
    LET cs == Candidates(ThicknessBuiltin, ThicknessNames)
    IN  \E k \in 1..Len(cs) : CandResolves(e, cs[k], HostBuiltInParameter)

\* the element's type has GetCompoundStructure, that returns None, and a
\* thickness resolves: get_material_layers makes one entry of it
PseudoLayer(e) ==
    IF e.typ = None THEN FALSE
    ELSE e.typ.hostAttr /\ e.typ.cs = None /\ ThicknessResolves(e)

AllowList ==
    {"Walls", "Floors", "Roofs", "Ceilings", "Structural Framing", "Structural Columns",
     "Doors", "Windows", "Furniture", "Casework", "Stairs"}

\* neither layers nor a fallback material
NoLayersNoMaterial(e) == HasCategory(e) /\ ZeroLayers(e) /\ ExistingMaterialIds(e) = {}

\* the one Record made of a thickness alone
IsPseudoLayerRecord(data) ==
    /\ Len(data) = 1
    /\ data[1].LayerIndex = PyInt(0)
    /\ data[1].MaterialId = NA
    /\ data[1].MaterialName = NA

\* the one placeholder Record
IsPlaceholderRecord(data) ==
    /\ Len(data) = 1
    /\ data[1].LayerIndex = PyInt(0)
    /\ data[1].MaterialId = Txt("No_Material")
    /\ data[1].MaterialName = Txt("No Material Assigned")

FieldSet == {all_fieldnames[k] : k \in 1..Len(all_fieldnames)}

\* the Records extracted and the rows written
RecordsAndRows ==
    {material_usage_data[k] : k \in 1..Len(material_usage_data)}
        \cup {normalized_data[k] : k \in 1..Len(normalized_data)}

EmptyValues == {None, Txt(""), Chars(<<>>)}
OtherPlaceholders ==
    {Txt("Unknown"), Txt("No TypeId"), Txt("No type found"), Txt("Unknown Material"),
     Txt("Unnamed Material")}

\* C9: every Record emitted and every row written has exactly the keys of the
\* fixed field list, and a field whose attribute could not be resolved holds
\* "N/A": never an empty value, None or another placeholder text.
C9_FixedKeysAndSentinel ==
    \A r \in RecordsAndRows :
        /\ DOMAIN r = FieldSet
        /\ \A field \in FieldSet : r[field] \notin EmptyValues \cup OtherPlaceholders

\* C9, the part that holds: the keys of every Record and row are exactly the
\* fixed field list.
C9_FixedKeys == \A r \in RecordsAndRows : DOMAIN r = FieldSet

\* C9, a state that refutes it: a row has been written whose FamilyName is
\* None (the "Family" parameter has a value and its text is empty).
C9_FailingState ==
    /\ pc = "saved"
    /\ \E k \in 1..Len(normalized_data) :
          /\ normalized_data[k].FamilyName = None
          /\ DOMAIN normalized_data[k] = FieldSet

\* the k-th element's processing meets an unexpected failure: its debug dump
\* raises, or reading one of its layers raises
Failed(k) ==
    \/ DebugFails(k)
    \/ HasCategory(elements[k]) /\ WalkFailsAt(elements[k]) > 0

\* C10: an unexpected failure while one entity is processed, a failure of
\* the layer walk included, is caught at the entity boundary: the entity
\* contributes zero Records, 'errors' grows by one per failed entity, and
\* every later entity is still processed.
C10_FailureCaughtAtBoundary ==
    pc \notin NotCollected =>
        /\ debug_info.errors = Cardinality({k \in 1..pos : Failed(k)})
        /\ (pos >= 1 /\ Failed(pos)) => element_data = <<>>
        /\ processed_elements = pos
        /\ pc # "loop" => pos = Len(elements)

\* C10, the part that holds: the same for the failures that reach
\* _process_element's handler (a stair's debug dump).
C10_DebugFailureCaught ==
    pc \notin NotCollected =>
        /\ debug_info.errors = Cardinality({k \in 1..pos : DebugFails(k)})
        /\ (pos >= 1 /\ DebugFails(pos)) => element_data = <<>>
        /\ processed_elements = pos
        /\ pc # "loop" => pos = Len(elements)

\* C10, a state that refutes it: reading the second layer of a wall has
\* raised, the wall has contributed Records (the last one the error entry),
\* and 'errors' is still 0.
C10_FailingState ==
    /\ Processed /\ HasCategory(Cur) /\ WalkFailsAt(Cur) = 2
    /\ element_data # <<>>
    /\ element_data[Len(element_data)].MaterialName = Fmt("Error: ", Txt("exception"))
    /\ debug_info.errors = 0
    /\ material_records > 0

----------------------------------------------------------------------------
(* Specification SpecTwice: extract_all_materials called twice over the    *)
(* same elements, the second time on the same extractor or on a new one.   *)

InitTwice == NewExtractor(Documents) /\ csvfile = NoFile /\ pc = "constructed"

NextTwice ==
    \/ Collect
    \/ ProcessNext
    \/ Finish
    \/ \E fresh \in BOOLEAN : ExtractAgain(fresh)

SpecTwice == InitTwice /\ [][NextTwice]_vars

\* the second call has returned
SecondCallDone == run = 2 /\ pc = "extracted"

\* the second call ran on a new extractor: its counters started at zero
OnNewExtractor == processed_elements = Len(elements)

\* C11: extract_all_materials called twice over the same unchanged elements,
\* on a new or on the same extractor, returns identical Record sequences.
C11_SecondRunIdentical == SecondCallDone => material_usage_data = first_data

\* C11, the part that holds: the Record sequences are identical when the
\* second call runs on a new extractor, and on the same extractor when no
\* stair's debug dump raises.
C11_IdenticalOnNewExtractor ==
    (SecondCallDone /\ (OnNewExtractor \/ \A k \in 1..Len(elements) : ~elements[k].dbgFail))
        => material_usage_data = first_data

\* C11, a state that refutes it: the second call on the same extractor has
\* returned more Records than the first, because the stair counter has
\* passed 3 and the failing debug dump is no longer made.
C11_FailingState ==
    /\ SecondCallDone
    /\ ~OnNewExtractor
    /\ debug_info.stair_elements > 3
    /\ Len(material_usage_data) > Len(first_data)

----------------------------------------------------------------------------
(* Properties of save_to_csv and of the file it writes (specification Spec) *)

\* the texts a csv reader gives back for a row of field values
RowTexts(row) == [k \in 1..Len(row) |-> FieldText(row[k])]

\* the texts of the fields of a Record, in the order of the columns
RecordTexts(record) ==
    RowTexts([k \in 1..Len(all_fieldnames) |-> record[all_fieldnames[k]]])

HeaderTexts == [k \in 1..Len(all_fieldnames) |-> <<all_fieldnames[k]>>]

\* the file read back holds the header row and then the Records of data,
\* one row each, in order
HoldsHeaderAndRecords(stream, data) ==
    Bind(csv_reader(stream), LAMBDA read :
        /\ ~read.error
        /\ Len(read.rows) = Len(data) + 1
        /\ read.rows[1] = HeaderTexts
        /\ \A k \in 1..Len(data) : read.rows[k + 1] = RecordTexts(data[k]))

\* C12: save_to_csv writes one header row and then exactly one data row
\* per Record, in Record order, and returns (path, count) with count the
\* number of data rows written; when the dialog is cancelled it returns
\* (None, 0) and the file at the destination is neither created nor changed.
C12_SaveWritesHeaderAndRows ==
    /\ [](pc = "saved" =>
             /\ csvfile.exists
             /\ HoldsHeaderAndRecords(csvfile.data, material_usage_data)
             /\ save_result.file_path # None
             /\ save_result.count = Len(material_usage_data))
    /\ [][pc' = "cancelled" =>
             /\ save_result' = [file_path |-> None, count |-> 0]
             /\ csvfile' = csvfile]_vars

\* C12, its case: three Records of two elements have been written over
\* the file an earlier export left.
C12_Witness ==
    /\ pc = "saved"
    /\ Len(elements) >= 2
    /\ Len(material_usage_data) = 3
    /\ save_result.count = 3
    /\ Len(csv_reader(csvfile.data).rows) = 4
    /\ csvfile.data[1] = "ElementId"

\* the run has ended in main's "Export Error" dialog
RunFailed == pc \in {"collect_error", "save_error"}

\* C13: after a run-level failure (the elements cannot be collected, the
\* destination cannot be opened or written) the error has reached main with
\* a descriptive message, and the run has left no output at the
\* destination: no file, or the file that was there before, untouched.
C13_FailureLeavesNoOutput ==
    RunFailed => /\ error_msg # None
                 /\ csvfile \in {NoFile, OldFile}

\* C13, the part that holds: every run-level failure reaches main's error
\* dialog with the wrapped message, and a failure to collect the elements
\* leaves the destination as it was.
C13_FailureReachesMain ==
    /\ RunFailed =>
          /\ error_msg # None
          /\ error_msg.text = "An error occurred during export:\n\n"
          /\ error_msg.arg.text \in {"Error collecting comprehensive material data: ",
                                     "Error saving CSV file: "}
          /\ save_result = None
    /\ pc = "collect_error" => csvfile \in {NoFile, OldFile}

\* C13, a state that refutes it: a write has raised after the header and
\* one of two Records; the error dialog is shown and the destination holds
\* the partial file.
C13_FailingState ==
    /\ pc = "save_error"
    /\ error_msg # None
    /\ Len(material_usage_data) = 2
    /\ csvfile \notin {NoFile, OldFile}
    /\ HoldsHeaderAndRecords(csvfile.data, SubSeq(material_usage_data, 1, 1))

----------------------------------------------------------------------------
(* Properties of the Records' content (specification Spec) *)

\* the element just processed has layers and its Records are layer Records
LayerRecordsMade ==
    /\ Processed
    /\ HasCategory(Cur)
    /\ LayersOf(Cur) # <<>>
    /\ element_data # <<>>

AreaOf(e) == get_element_area_robust(e, HostBuiltInParameter)
VolumeOf(e) == get_element_volume_robust(e, HostBuiltInParameter)

\* C14: every layer Record of an entity carries the entity's own scalars:
\* ElementTotalArea_m2 and MaterialArea_m2 are the area, and
\* ElementTotalVolume_m3 the volume, that get_element_area_robust and
\* get_element_volume_robust resolve for the entity; a resolved value is
\* never "N/A" in the Record.
C14_LayerRecordsCarryEntityScalars ==
    LayerRecordsMade =>
        \A k \in 1..Len(element_data) :
            /\ element_data[k].ElementTotalArea_m2 = AreaOf(Cur)
            /\ element_data[k].MaterialArea_m2 = AreaOf(Cur)
            /\ element_data[k].ElementTotalVolume_m3 = VolumeOf(Cur)

\* C14, the part that holds: the three scalars are the same in all layer
\* Records of the entity, and each is the resolved value or "N/A".
C14_SameScalarsInAllRows ==
    LayerRecordsMade =>
        \A k \in 1..Len(element_data) :
            /\ element_data[k].ElementTotalArea_m2 = element_data[1].ElementTotalArea_m2
            /\ element_data[k].MaterialArea_m2 = element_data[1].MaterialArea_m2
            /\ element_data[k].ElementTotalVolume_m3
                   = element_data[1].ElementTotalVolume_m3
            /\ element_data[k].ElementTotalArea_m2 \in {AreaOf(Cur), NA}
            /\ element_data[k].MaterialArea_m2 \in {AreaOf(Cur), NA}
            /\ element_data[k].ElementTotalVolume_m3 \in {VolumeOf(Cur), NA}

\* C14, a state that refutes it: the area of a two-layer element resolves
\* to "9,29", and both of its layer Records hold "N/A" as ElementTotalArea_m2.
C14_FailingState ==
    /\ LayerRecordsMade
    /\ Len(element_data) = 2
    /\ AreaOf(Cur) = Chars(<<"9", ",", "2", "9">>)
    /\ \A k \in 1..2 : /\ element_data[k].ElementTotalArea_m2 = NA
                       /\ element_data[k].MaterialArea_m2 = NA

\* C14, a state where it holds: the area resolves to the whole number
\* "929", which both layer Records carry.
C14_WholeNumberKept ==
    /\ LayerRecordsMade
    /\ Len(element_data) = 2
    /\ AreaOf(Cur) = Chars(<<"9", "2", "9">>)
    /\ \A k \in 1..2 : element_data[k].ElementTotalArea_m2 = AreaOf(Cur)

\* the element just processed is a wall with layers, one of them at least
\* with an unset material
WallWithUnsetLayer ==
    /\ Processed
    /\ HasCategory(Cur)
    /\ Cur.Category.Name = "Walls"
    /\ \E k \in 1..Len(LayersOf(Cur)) : LayersOf(Cur)[k].MaterialId = InvalidElementId

ByCategoryClasses == {Txt("By Category (Resolved)"), Txt("By Category (Unresolved)")}

\* the k-th Record is the Record of the k-th layer: a "By Category" Record
\* for an unset material, the material's id and name for a material of the
\* document
RecordOfLayer(record, layer) ==
    IF layer.MaterialId = InvalidElementId
    THEN /\ StartsWithByCategory(record.MaterialId)
         /\ record.MaterialClass \in ByCategoryClasses
    ELSE /\ record.MaterialId = PyInt(layer.MaterialId)
         /\ doc_GetElement(layer.MaterialId) # None
                => record.MaterialName = doc_GetElement(layer.MaterialId).Name

\* C15: a wall with layers, some of them with an unset material, yields one
\* Record per layer; the Record of an unset-material layer has a MaterialId
\* starting with "ByCategory" and a "By Category" MaterialClass, and the
\* Record of a layer with a material keeps the material's id and name.
C15_ByCategoryLayers ==
    WallWithUnsetLayer =>
        /\ Len(element_data) = Len(LayersOf(Cur))
        /\ \A k \in 1..Len(element_data) :
               RecordOfLayer(element_data[k], LayersOf(Cur)[k])

\* C15, the part that holds: the same whenever the walk over the layers
\* completes.
C15_WhenWalkCompletes ==
    (WallWithUnsetLayer /\ WalkFailsAt(Cur) = 0) =>
        /\ Len(element_data) = Len(LayersOf(Cur))
        /\ \A k \in 1..Len(element_data) :
               RecordOfLayer(element_data[k], LayersOf(Cur)[k])

\* C15, a state that refutes it: the second layer of a wall has an unset
\* material and reading it raises; its Record has MaterialId "Error" and
\* MaterialClass "Unknown".
C15_FailingState ==
    /\ WallWithUnsetLayer
    /\ Len(LayersOf(Cur)) = 2
    /\ LayersOf(Cur)[2].MaterialId = InvalidElementId
    /\ WalkFailsAt(Cur) = 2
    /\ Len(element_data) = 2
    /\ element_data[2].MaterialId = Txt("Error")
    /\ element_data[2].MaterialClass = Txt("Unknown")

\* C15, the scenario: layer 0 is "Concrete", layer 1 is unset; two Records,
\* the second with a "By Category" class.
C15_Scenario ==
    /\ WallWithUnsetLayer
    /\ WalkFailsAt(Cur) = 0
    /\ Len(element_data) = 2
    /\ element_data[1].MaterialName = Txt("Concrete")
    /\ element_data[2].MaterialClass \in ByCategoryClasses

\* the position in the collection of the element a Record was made for
PositionOf(record) == CHOOSE j \in 1..Len(elements) : PyInt(elements[j].Id) = record.ElementId

\* the Records are grouped by element in the order of the collection, and
\* the layer Records of one element are in the order of its layers
InCollectionOrder(data) ==
    \A k, l \in 1..Len(data) :
        k < l =>
            /\ PositionOf(data[k]) <= PositionOf(data[l])
            /\ (/\ PositionOf(data[k]) = PositionOf(data[l])
                /\ LayersOf(elements[PositionOf(data[k])]) # <<>>
                /\ data[l].LayerIndex # PyInt(-1))
                   => data[k].LayerIndex.n < data[l].LayerIndex.n

\* C16: output order is input order. The Records returned by
\* extract_all_materials, and the rows save_to_csv writes, are grouped by
\* element in the order of the collection, those of one element in the
\* order of its layers; the collection is traversed once, front to back:
\* each step takes the next element and appends its Records at the end.
C16_OutputOrderIsInputOrder ==
    /\ [](/\ pc # "idle" => InCollectionOrder(material_usage_data)
          /\ pc \in {"extracted", "nodata", "saved", "cancelled", "save_error"}
                => pos = Len(elements) /\ processed_elements = Len(elements)
          /\ pc = "saved" =>
                /\ InCollectionOrder(normalized_data)
                /\ HoldsHeaderAndRecords(csvfile.data, material_usage_data))
    /\ [][/\ pos' # pos => pos' = pos + 1 /\ processed_elements' = processed_elements + 1
          /\ material_usage_data' # material_usage_data
                => /\ pos' = pos + 1
                   /\ material_usage_data' = material_usage_data \o element_data'
                   /\ \A k \in 1..Len(element_data') :
                          element_data'[k].ElementId = PyInt(elements[pos'].Id)]_vars

\* C16, its case: the Records of three elements, one of them with two
\* layers, have been written.
C16_Witness ==
    /\ pc = "saved"
    /\ Len(elements) = 3
    /\ \A j \in 1..3 : \E k \in 1..Len(material_usage_data) :
           PositionOf(material_usage_data[k]) = j
    /\ \E k \in 1..(Len(material_usage_data) - 1) :
           /\ material_usage_data[k].LayerIndex = PyInt(0)
           /\ material_usage_data[k + 1].LayerIndex = PyInt(1)

\* sub occurs in stream as a run of consecutive pieces
Occurs(sub, stream) ==
    \E i \in 1..(Len(stream) - Len(sub) + 1) : SubSeq(stream, i, i + Len(sub) - 1) = sub

\* the text holds the delimiter, a quote character or a newline
HoldsSpecial(text) ==
    \E k \in 1..Len(text) : text[k] \in {CSV_DELIMITER, QuoteChar, LineFeed}

\* the text as a quoted field: in quotes, its quote characters doubled
Quoted(text) == <<QuoteChar>> \o csv_double_quotes(text, Len(text)) \o <<QuoteChar>>

\* C17: with the delimiter ';', save_to_csv writes every field value that
\* holds the delimiter, a quote character or a newline as a quoted field, so
\* that every row of the file has as many fields as the header has columns.
C17_SpecialFieldsQuoted ==
    pc = "saved" =>
        /\ Bind(csv_reader(csvfile.data), LAMBDA read :
               /\ ~read.error
               /\ \A r \in 1..Len(read.rows) : Len(read.rows[r]) = Len(all_fieldnames))
        /\ \A k \in 1..Len(material_usage_data) :
               \A j \in 1..Len(all_fieldnames) :
                   Bind(FieldText(material_usage_data[k][all_fieldnames[j]]), LAMBDA text :
                       HoldsSpecial(text) => Occurs(Quoted(text), csvfile.data))

\* C17, its case: a Record whose material name is Paint; White and whose
\* family name holds a quote character and a newline has been written.
C17_Witness ==
    /\ pc = "saved"
    /\ \E k \in 1..Len(material_usage_data) :
           /\ material_usage_data[k].MaterialName = Txt("Paint; White")
           /\ material_usage_data[k].FamilyName = Txt("Wall 8\" Block\nExterior")
    /\ Occurs(<<CSV_DELIMITER, QuoteChar, "Paint", CSV_DELIMITER, " White", QuoteChar,
                CSV_DELIMITER>>, csvfile.data)
    /\ Occurs(<<QuoteChar, "Wall 8", QuoteChar, QuoteChar, " Block", LineFeed,
                "Exterior", QuoteChar>>, csvfile.data)

\* a field read back holds the value the Record held: the reader gives
\* texts, so a str is read back as itself, a number as its text, and None,
\* which is written as the empty text, as no value of the Record
ReadsBackAs(value, text) == value # None /\ text = FieldText(value)

\* the number of the column FamilyName
FamilyNameColumn == CHOOSE j \in 1..Len(all_fieldnames) : all_fieldnames[j] = "FamilyName"

\* C18: round trip. The file save_to_csv writes, read again with the same
\* delimiter, gives back for every Record and every column the value the
\* Record held (a number as its text).
C18_RoundTrip ==
    pc = "saved" =>
        Bind(csv_reader(csvfile.data), LAMBDA read :
            /\ ~read.error
            /\ Len(read.rows) = Len(material_usage_data) + 1
            /\ \A k \in 1..Len(material_usage_data) :
                   /\ Len(read.rows[k + 1]) = Len(all_fieldnames)
                   /\ \A j \in 1..Len(all_fieldnames) :
                          ReadsBackAs(material_usage_data[k][all_fieldnames[j]],
                                      read.rows[k + 1][j]))

\* C18, the part that holds: every value other than None is read back as
\* the text of the value the Record held.
C18_RoundTripOfTexts ==
    pc = "saved" =>
        Bind(csv_reader(csvfile.data), LAMBDA read :
            /\ ~read.error
            /\ Len(read.rows) = Len(material_usage_data) + 1
            /\ \A k \in 1..Len(material_usage_data) :
                   /\ Len(read.rows[k + 1]) = Len(all_fieldnames)
                   /\ \A j \in 1..Len(all_fieldnames) :
                          \/ material_usage_data[k][all_fieldnames[j]] = None
                          \/ ReadsBackAs(material_usage_data[k][all_fieldnames[j]],
                                         read.rows[k + 1][j]))

\* C18, a state that refutes it: a Record whose FamilyName is None has been
\* written, and the file read again gives the empty text in that column.
C18_FailingState ==
    /\ pc = "saved"
    /\ material_usage_data[1].FamilyName = None
    /\ csv_reader(csvfile.data).rows[2][FamilyNameColumn] = <<>>

\* the first row of the file: its pieces up to the first line feed
HeaderRow(stream) ==
    SubSeq(stream, 1, CHOOSE n \in 1..Len(stream) :
                          /\ stream[n] = LineFeed
                          /\ \A m \in 1..(n - 1) : stream[m] # LineFeed)

\* C20: the header is stable. The header row save_to_csv writes for a
\* non-empty Record list is the header row it writes for an empty list, the
\* same names in the same order, whatever the Records hold (stair Records
\* or none).
C20_HeaderStable ==
    /\ all_fieldnames = headers
    /\ pc = "saved" =>
          /\ HeaderRow(csvfile.data) = csv_header(<<>>)
          /\ HeaderRow(csvfile.data) = HeaderRow(save_to_csv(<<>>).csvfile)

\* C20, its case: the Records written are those of a stair and of a wall.
C20_Witness ==
    /\ pc = "saved"
    /\ \E k, l \in 1..Len(material_usage_data) :
           /\ material_usage_data[k].ElementCategory = Txt("Stairs")
           /\ material_usage_data[l].ElementCategory = Txt("Walls")
    /\ HeaderRow(csvfile.data)[1] = "ElementId"
    /\ Len(HeaderRow(csvfile.data)) = 2 * Len(headers)

----------------------------------------------------------------------------
(* Specification SpecList: export_material_list over bounded documents.    *)

MaxListElements == 2

\* the named parameters of a listed element: an area of 100 sq ft and a
\* volume of 100 cu ft, none, or an area that cannot be read
ListNamed(kind) ==
    CASE kind = "both" -> [key \in {"Area", "Volume"} |-> P_Double(10000, "100")]
      [] kind = "raises" -> [key \in {"Area"} |-> P_Raises]
      [] OTHER -> EmptyTable

\* the elements the documents of the material-list export are made of
ListElementKinds ==
    {Element(0, Category("Walls", None),
             TypeOf("layers", CompoundStructure(<<Layer(2, Float(66, 2)),
                                                  Layer(InvalidElementId, Float(50, 2))>>,
                                                0)),
             EmptyTable, ListNamed("both"), "Wall", <<>>, FALSE),
     Element(0, Category("Walls", None),
             TypeOf("layers", CompoundStructure(<<Layer(1, Float(66, 2))>>, 1)),
             EmptyTable, ListNamed("none"), "Wall", <<>>, FALSE),
     Element(0, Category("Floors", None), TypeOf("hostnone", None),
             EmptyTable, ListNamed("both"), "Floor", <<>>, FALSE),
     Element(0, Category("Roofs", None), TypeOf("layers", CompoundStructure(<<>>, 0)),
             EmptyTable, ListNamed("none"), "RoofBase", <<>>, FALSE),
     Element(0, Category("Ceilings", None), TypeOf("none", None),
             EmptyTable, ListNamed("raises"), "Ceiling", <<>>, FALSE),
     Element(0, Category("Doors", None), TypeOf("plain", None),
             EmptyTable, ListNamed("both"), "FamilyInstance", <<>>, FALSE),
     Element(0, Category("Furniture", None), TypeOf("none", None),
             EmptyTable, ListNamed("none"), "FamilyInstance", <<>>, FALSE),
     Element(0, None, TypeOf("plain", None),
             EmptyTable, ListNamed("none"), "FamilyInstance", <<>>, FALSE)}

ListDocuments ==
    {[k \in 1..Len(es) |-> [es[k] EXCEPT !.Id = 200 + k]] :
        es \in {s \in SeqsUpTo(ListElementKinds, MaxListElements) : Len(s) >= 1}}

InitList ==
    /\ lst_elements \in ListDocuments
    /\ lst_engine \in {"python2", "python3"}
    \* the button is pressed (main), or export_material_list is called
    /\ lst_pc \in {"main", "start"}
    /\ lst_pos = 0
    /\ lst_rows = <<>>
    /\ lst_file \in {NoFile, OldFile}
    /\ lst_result = None
    /\ lst_answer = "none"
    /\ lst_dialogs = <<>>
    /\ IdleFmt
    /\ IdleRes
    /\ IdleExt

NextList ==
    \/ ListMainAnswer
    \/ ListStart
    \/ ListElement
    \/ ListSave

SpecList == InitList /\ [][NextList]_vars

\* every row of the stream ends with one line feed and nothing else: the
\* stream ends with a line feed, and no carriage return stands before a
\* line feed
SingleNewlines(stream) ==
    /\ stream # <<>>
    /\ stream[Len(stream)] = LineFeed
    /\ \A k \in 2..Len(stream) :
           stream[k] = LineFeed => stream[k - 1] # CarriageReturn

\* C19: in the file either exporter writes, the header row and every data
\* row are terminated by a single newline character. Here for
\* export_material_list.
C19_RowsEndWithSingleNewline ==
    lst_pc = "done" => /\ lst_file.exists
                       /\ SingleNewlines(lst_file.data)

\* C19, the part that holds: the rows save_to_csv writes end with a single
\* line feed (specification Spec).
C19_SaveToCsvSingleNewline ==
    pc = "saved" => SingleNewlines(csvfile.data)

\* C19, a state that refutes it: export_material_list has written the
\* header and two rows, and each of them ends with a carriage return and a
\* line feed.
C19_FailingState ==
    /\ lst_pc = "done"
    /\ lst_result.count = 2
    /\ Len(csv_reader(lst_file.data).rows) = 3
    /\ Cardinality({k \in 2..Len(lst_file.data) :
                       /\ lst_file.data[k] = LineFeed
                       /\ lst_file.data[k - 1] = CarriageReturn}) = 3

----------------------------------------------------------------------------
(* More properties of the Records (specification Spec) *)

\* the number an area text writes ("9,29" is 9.29)
AreaNumber(area_str) == ParseFloat(Replace(area_str.chars, ",", "."))

\* the thickness of a layer in millimetres, as the layer walk records it
LayerThickness(layer) == PyRound(Float(layer.Width.n * 3048, layer.Width.p + 1), 2)

\* thickness (mm / 1000) times area, to five decimals, as a Record holds it
ThicknessTimesArea(layer, area_str) ==
    LET area == AreaNumber(area_str)
        thickness == LayerThickness(layer)
    IN  Chars(RoundedCommaText(area.n * thickness.n, area.p + thickness.p + 3, 5))

\* the Records of the element just processed are one per layer, and the
\* k-th has as MaterialVolume_m3 the k-th layer's thickness times the area
VolumePerLayer ==
    /\ Len(element_data) = Len(LayersOf(Cur))
    /\ \A k \in 1..Len(element_data) :
           element_data[k].MaterialVolume_m3
               = ThicknessTimesArea(LayersOf(Cur)[k], AreaOf(Cur))

\* C22: per-layer volume follows the per-layer-thickness approach: for every
\* entity with layers and a resolved area, MaterialVolume_m3 of each layer
\* Record is that layer's thickness (mm / 1000) multiplied by the entity's
\* area, for every layered category (walls, floors, roofs, ceilings) and
\* for every resolved area, with or without a fractional part.
C22_VolumeIsThicknessTimesArea ==
    (LayerRecordsMade /\ AreaOf(Cur) # NA) => VolumePerLayer

\* C22, the part that holds: the same for a wall or a floor whose layers are
\* all read.
C22_WallsAndFloors ==
    (LayerRecordsMade /\ AreaOf(Cur) # NA /\ WalkFailsAt(Cur) = 0
        /\ Cur.cls \in {"Wall", "Floor"}) => VolumePerLayer

\* C22, a state that refutes it: a roof of two layers whose area resolves
\* has "N/A" as MaterialVolume_m3 in both of its layer Records.
C22_FailingState ==
    /\ LayerRecordsMade
    /\ Cur.cls = "Roof"
    /\ WalkFailsAt(Cur) = 0
    /\ AreaOf(Cur) # NA
    /\ Len(element_data) = 2
    /\ \A k \in 1..2 : element_data[k].MaterialVolume_m3 = NA

\* C22, a state where it holds: a wall of two layers of 201.17 mm and
\* 152.4 mm and an area of 9.29 m2 has the volumes 1.86887 and 1.4158.
C22_WallScenario ==
    /\ LayerRecordsMade
    /\ Cur.cls = "Wall"
    /\ AreaOf(Cur) = Chars(<<"9", ",", "2", "9">>)
    /\ Len(element_data) = 2
    /\ element_data[1].MaterialVolume_m3
           = Chars(<<"1", ",", "8", "6", "8", "8", "7">>)
    /\ element_data[2].MaterialVolume_m3 = Chars(<<"1", ",", "4", "1", "5", "8">>)

\* what get_material_layers returns for the element just processed
LayerEntries == get_material_layers(Cur, HostBuiltInParameter)

IsErrorEntry(entry) == entry.LayerIndex.n < 0 \/ entry.MaterialId = Txt("Error")

\* the entries made from layers of the compound structure
EntriesOfLayers == SelectSeq(LayerEntries, LAMBDA entry : ~IsErrorEntry(entry))

\* C26: the layer walk is all-or-nothing per entity: get_material_layers
\* returns either one entry per layer of the compound structure or no layer
\* entry at all; a failure on the k-th layer never leaves the first k-1
\* layer entries in the result, and no emitted Record has a negative
\* LayerIndex or the MaterialId "Error".
C26_LayerWalkAllOrNothing ==
    (Processed /\ LayersOf(Cur) # <<>>) =>
        /\ Len(EntriesOfLayers) \in {0, Len(LayersOf(Cur))}
        /\ \A k \in 1..Len(material_usage_data) : ~IsErrorEntry(material_usage_data[k])

\* C26, the part that holds: a walk that does not fail gives one entry per
\* layer and no error entry, and a walk that fails at the k-th layer gives
\* the k-1 entries before it followed by one error entry.
C26_EntriesUpToFailure ==
    (Processed /\ HasCategory(Cur) /\ LayersOf(Cur) # <<>>) =>
        /\ Len(element_data) = Len(LayerEntries)
        /\ IF WalkFailsAt(Cur) = 0
           THEN /\ Len(LayerEntries) = Len(LayersOf(Cur))
                /\ EntriesOfLayers = LayerEntries
           ELSE /\ Len(LayerEntries) = WalkFailsAt(Cur)
                /\ Len(EntriesOfLayers) = WalkFailsAt(Cur) - 1
                /\ LayerEntries[WalkFailsAt(Cur)] = ErrorLayer

\* C26, a state that refutes it: reading the second layer of a wall of two
\* layers raised; the walk returned the entry of the first layer and an
\* error entry, and both became Records.
C26_FailingState ==
    /\ Processed
    /\ Cur.cls = "Wall"
    /\ Len(LayersOf(Cur)) = 2
    /\ WalkFailsAt(Cur) = 2
    /\ Len(LayerEntries) = 2
    /\ ~IsErrorEntry(LayerEntries[1])
    /\ LayerEntries[2] = ErrorLayer
    /\ Len(material_usage_data) = 2
    /\ material_usage_data[2].LayerIndex = PyInt(-1)
    /\ material_usage_data[2].MaterialId = Txt("Error")

\* the MaterialId "ByCategory_<id>" of a layer whose category has a material
IsResolvedByCategoryId(value) ==
    value.py = "str" /\ "arg" \in DOMAIN value /\ value.text = "ByCategory_"

\* C30: _get_material_class distinguishes resolved from unresolved
\* by-category layers: a layer Record with MaterialId "ByCategory_<id>" has
\* MaterialClass "By Category (Resolved)", a layer Record with MaterialId
\* "ByCategory_Unknown" has MaterialClass "By Category (Unresolved)", and
\* every Record with MaterialId "No_Material" has MaterialClass
\* "No Material".
C30_MaterialClassDistinguishes ==
    \A k \in 1..Len(material_usage_data) :
        LET record == material_usage_data[k]
        IN  /\ IsResolvedByCategoryId(record.MaterialId)
                   => record.MaterialClass = Txt("By Category (Resolved)")
            /\ record.MaterialId = Txt("ByCategory_Unknown")
                   => record.MaterialClass = Txt("By Category (Unresolved)")
            /\ record.MaterialId = Txt("No_Material")
                   => record.MaterialClass = Txt("No Material")

\* C30, the part that holds: a Record with MaterialId "ByCategory_<id>" has
\* MaterialClass "By Category (Resolved)".
C30_ResolvedByCategory ==
    \A k \in 1..Len(material_usage_data) :
        IsResolvedByCategoryId(material_usage_data[k].MaterialId)
            => material_usage_data[k].MaterialClass = Txt("By Category (Resolved)")

\* C30, what the other two get: "ByCategory_Unknown" is classed as resolved
\* too, and a "No_Material" Record has the class "Unknown".
C30_UnresolvedAndPlaceholder ==
    \A k \in 1..Len(material_usage_data) :
        LET record == material_usage_data[k]
        IN  /\ record.MaterialId = Txt("ByCategory_Unknown")
                   => record.MaterialClass = Txt("By Category (Resolved)")
            /\ record.MaterialId = Txt("No_Material")
                   => record.MaterialClass = Txt("Unknown")

\* C30, a state that refutes it: a wall whose category has no material has a
\* layer with an unset material; the layer's Record has MaterialId
\* "ByCategory_Unknown" and MaterialClass "By Category (Resolved)".
C30_FailingState ==
    /\ WallWithUnsetLayer
    /\ Cur.Category.Material = None
    /\ WalkFailsAt(Cur) = 0
    /\ \E k \in 1..Len(element_data) :
          /\ LayersOf(Cur)[k].MaterialId = InvalidElementId
          /\ element_data[k].MaterialId = Txt("ByCategory_Unknown")
          /\ element_data[k].MaterialName = Fmt("By Category: ", Txt("Walls"))
          /\ element_data[k].MaterialClass = Txt("By Category (Resolved)")

\* C30, a second state that refutes it: a Record with MaterialId
\* "No_Material" and MaterialClass "Unknown".
C30_PlaceholderState ==
    /\ Processed
    /\ Len(element_data) = 1
    /\ element_data[1].MaterialId = Txt("No_Material")
    /\ element_data[1].MaterialClass = Txt("Unknown")

----------------------------------------------------------------------------
(* Properties of the extractor's counters (specification Spec) *)

\* C27: counter invariants of MaterialDataExtractor: after every completed
\* iteration of the entity loop in extract_all_materials, material_records
\* equals the number of Records accumulated so far, processed_elements
\* equals the number of entities visited, and errors +
\* elements_with_materials <= elements_with_category <= processed_elements
\* <= total_elements with elements_with_layers <= elements_with_materials;
\* on return processed_elements equals total_elements.
C27_CounterInvariants ==
    pc \notin NotCollected =>
        /\ material_records = Len(material_usage_data)
        /\ processed_elements = pos
        /\ debug_info.errors + debug_info.elements_with_materials
               <= debug_info.elements_with_category
        /\ debug_info.elements_with_category <= processed_elements
        /\ processed_elements <= debug_info.total_elements
        /\ debug_info.elements_with_layers <= debug_info.elements_with_materials
        /\ pc # "loop" => processed_elements = debug_info.total_elements

\* C27 witness: extract_all_materials has returned from three entities: one
\* without a category, one whose processing failed and one with layers.
C27_Witness ==
    /\ pc = "extracted"
    /\ processed_elements = 3
    /\ debug_info.total_elements = 3
    /\ debug_info.elements_with_category = 2
    /\ debug_info.errors = 1
    /\ debug_info.elements_with_materials = 1
    /\ debug_info.elements_with_layers = 1
    /\ material_records = 2
    /\ Len(material_usage_data) = 2

----------------------------------------------------------------------------
(* What the run leaves alone (specification Spec) *)

\* the Records accumulated before a step are still there after it, unchanged
RecordsKept ==
    /\ Len(material_usage_data') >= Len(material_usage_data)
    /\ SubSeq(material_usage_data', 1, Len(material_usage_data)) = material_usage_data

\* C21: the resolver, the aggregator and the exporter never mutate their
\* inputs: no operation of extract_all_materials changes any property of an
\* entity, type entity or layer, and save_to_csv leaves the Record sequence
\* it is given, and every Record in it, unchanged (Records are never updated
\* in place after they were appended).
C21_InputsNeverMutated ==
    [][/\ elements' = elements
       /\ RecordsKept
       /\ pc = "extracted" => material_usage_data' = material_usage_data]_vars

\* C21 witness: save_to_csv has written a file from Records one of which
\* holds an empty value, and the Records are those extract_all_materials
\* returned.
C21_Witness ==
    /\ pc = "saved"
    /\ csvfile.exists
    /\ Len(normalized_data) = Len(material_usage_data)
    /\ \E k \in 1..Len(material_usage_data) :
          material_usage_data[k].FamilyName = None
    /\ Len(material_usage_data) = material_records

----------------------------------------------------------------------------
(* Specification SpecMain: main of the ESG export run to its end. The code  *)
(* is sequential and every dialog is answered, so a step that can be taken *)
(* is taken.                                                               *)

\* the elements of the documents main is run on: a wall with layers, a
\* stair whose debug dump fails, an element without a category and a
\* foundation that gives no Record
MainDescs == {d \in CoreDescs : d.cat # "walls" /\ (d.cat = "stairs" => d.dbg)}

MaxMainElements == 2

MainDocuments ==
    {[k \in 1..Len(ds) |-> ElementOf(ds[k], 100 + k)] :
        ds \in {s \in SeqsUpTo(MainDescs, MaxMainElements) : Len(s) >= 1}}

InitMain ==
    /\ NewExtractor(MainDocuments)
    /\ pc = "start"

SpecMain == InitMain /\ [][Next]_vars /\ WF_vars(Next)

\* where main has returned
MainEnded == pc \in {"declined", "collect_error", "nodata", "saved", "cancelled",
                     "save_error"}

OutcomeDialogs == {"Export Success", "Export Cancelled", "No Data", "Export Error"}

\* C28: every run of main terminates with exactly one outcome dialog (Export
\* Success, Export Cancelled, No Data or Export Error). Export Success is
\* shown only after the header and every Record have been written to the
\* chosen file; when the user declines the confirmation no entity is read;
\* when extraction yields no Records the save dialog is never opened and no
\* file is written.
C28_OneOutcomeDialog ==
    /\ <>MainEnded
    /\ [](/\ Len(dialogs) = IF MainEnded THEN 1 ELSE 0
          /\ \A k \in 1..Len(dialogs) : dialogs[k] \in OutcomeDialogs
          /\ dialogs = <<"Export Success">> =>
                 /\ csvfile.exists
                 /\ HoldsHeaderAndRecords(csvfile.data, material_usage_data)
          /\ pc = "declined" =>
                 /\ dialogs = <<"Export Cancelled">>
                 /\ pos = 0
                 /\ debug_info = NewDebugInfo
                 /\ material_usage_data = <<>>)
    /\ [][(pc = "extracted" /\ material_usage_data = <<>>) =>
              /\ dialogs' = <<"No Data">>
              /\ csvfile' = csvfile
              /\ save_result' = None]_vars

\* C28 witness: the run has ended with the Export Success dialog after two
\* Records were written over an older file.
C28_Witness ==
    /\ pc = "saved"
    /\ dialogs = <<"Export Success">>
    /\ Len(material_usage_data) = 2
    /\ csvfile.exists
    /\ csvfile # OldFile
    /\ Len(csv_reader(csvfile.data).rows) = 3

\* C28, the other outcomes: the run has ended after the confirmation was
\* declined, with no Record extracted, with the save dialog cancelled, or
\* with a failure.
C28_Declined == pc = "declined" /\ dialogs = <<"Export Cancelled">> /\ csvfile = OldFile
C28_NoData == pc = "nodata" /\ dialogs = <<"No Data">> /\ pos >= 1
C28_Cancelled == pc = "cancelled" /\ dialogs = <<"Export Cancelled">>
C28_Failed == pc = "save_error" /\ dialogs = <<"Export Error">>

----------------------------------------------------------------------------
(* Properties of the material-list export's main (specification SpecList) *)

ListMainEnded == lst_answer # "none" /\ lst_pc \in {"main_error", "main_done", "done", "error"}

\* export_material_list was run: it has returned or raised
ListExportRun == lst_result # None

\* C24: in the material-list export's main, when the user answers Yes in the
\* confirmation dialog, export_material_list is run exactly once and is
\* followed by the success dialog with the file path and item count; when
\* the user answers No, no export is run and no file is written; the error
\* dialog appears only if the export itself failed.
C24_ListMainDialogs ==
    ListMainEnded =>
        /\ lst_answer = "Yes" =>
               /\ ListExportRun
               /\ lst_result # Fmt("Error during material export: ", Txt("exception"))
                      => lst_dialogs = <<"Export Complete">>
        /\ lst_answer = "No" => ~ListExportRun /\ lst_rows = <<>>
        /\ lst_dialogs = <<"Export Error">>
               => lst_result = Fmt("Error during material export: ", Txt("exception"))

\* C24, the part that holds: when main is run no file is written, whatever
\* the answer, and at most one dialog follows the confirmation.
C24_NothingWritten ==
    [][lst_answer' # "none" =>
           /\ lst_file' = lst_file
           /\ lst_rows' = <<>>
           /\ lst_result' = None
           /\ Len(lst_dialogs') <= 1]_vars

\* C24, what happens instead: whatever the answer, main ends with the
\* "Export Error" dialog and export_material_list is not run.
C24_AlwaysErrorDialog ==
    lst_answer # "none" =>
        /\ lst_pc = "main_error"
        /\ lst_dialogs = <<"Export Error">>
        /\ ~ListExportRun

\* C24, a state that refutes it: the user has answered Yes; export_material_list
\* was not run and the "Export Error" dialog is shown.
C24_FailingState ==
    /\ lst_answer = "Yes"
    /\ lst_pc = "main_error"
    /\ lst_dialogs = <<"Export Error">>
    /\ ~ListExportRun
    /\ lst_rows = <<>>
    /\ lst_file \in {NoFile, OldFile}

----------------------------------------------------------------------------
(* Properties of export_material_list (specification SpecList) *)

\* the rows after the header
ListDataRows == Tail(lst_rows)

\* the places of the data rows of an element (column 1 is its id)
RowsOfElement(el) == {k \in 1..Len(ListDataRows) : ListDataRows[k][1] = PyInt(el.Id)}

IsSystemFamily(el) == el.cls \in {"Wall", "Floor", "RoofBase", "Ceiling"}

\* the element is a wall, floor, roof or ceiling whose type has a compound
\* structure
HasCompoundStructure(el) ==
    /\ IsSystemFamily(el)
    /\ el.typ # None
    /\ el.typ.hostAttr
    /\ el.typ.cs # None

\* the name column 5 holds for a layer
ListedMaterialName(layer) ==
    IF layer.MaterialId = InvalidElementId \/ layer.MaterialId \notin DOMAIN DocMaterials
    THEN Txt("No Material")
    ELSE DocMaterials[layer.MaterialId].Name

\* the data rows of the element are as export_material_list describes them
ListedAsDescribed(el) ==
    LET R == RowsOfElement(el)
    IN  IF HasCompoundStructure(el)
        THEN /\ Cardinality(R) = Len(el.typ.cs.layers)
             /\ R # {} =>
                    \A i \in 1..Len(el.typ.cs.layers) :
                        LET row == ListDataRows[MinOf(R) + i - 1]
                        IN  /\ row[1] = PyInt(el.Id)
                            /\ row[5] = ListedMaterialName(el.typ.cs.layers[i])
                            /\ IsFloat(row[6])
        ELSE /\ Cardinality(R) = 1
             /\ \A k \in R : /\ ListDataRows[k][5] = Txt("")
                             /\ ListDataRows[k][6] = Txt("")

\* C23: export_material_list writes one header row, then for every wall,
\* floor, roof and ceiling one row per layer of its compound structure
\* (material name "No Material" for a layer with an unset material) or one
\* row with blank material and thickness when it has no compound structure,
\* then one row per family instance; the count it returns equals the number
\* of data rows written, excluding the header.
C23_ListRowsAndCount ==
    lst_pc = "done" =>
        /\ lst_rows[1] = ListHeader
        /\ \A j \in 1..Len(lst_elements) : ListedAsDescribed(lst_elements[j])
        /\ \A k \in 1..Len(ListDataRows) :
               \E j \in 1..Len(lst_elements) : k \in RowsOfElement(lst_elements[j])
        /\ \A i, j \in 1..Len(lst_elements) :
               (IsSystemFamily(lst_elements[i]) /\ ~IsSystemFamily(lst_elements[j])) =>
                   \A a \in RowsOfElement(lst_elements[i]) :
                   \A b \in RowsOfElement(lst_elements[j]) : a < b
        /\ lst_file.exists
        /\ ~csv_reader(lst_file.data).error
        /\ csv_reader(lst_file.data).rows = [k \in 1..Len(lst_rows) |-> RowTexts(lst_rows[k])]
        /\ lst_result.count = Len(csv_reader(lst_file.data).rows) - 1

\* C23 witness: a family instance comes before a wall in the document; the
\* wall has two layers, the second with an unset material. The file holds
\* the header, the wall's two rows (the second with "No Material") and then
\* the instance's row, and the count returned is 3.
C23_Witness ==
    /\ lst_pc = "done"
    /\ Len(lst_elements) = 2
    /\ lst_elements[1].cls = "FamilyInstance"
    /\ lst_elements[2].cls = "Wall"
    /\ Len(lst_rows) = 4
    /\ lst_rows[2][1] = PyInt(lst_elements[2].Id)
    /\ lst_rows[3][5] = Txt("No Material")
    /\ lst_rows[4][1] = PyInt(lst_elements[1].Id)
    /\ lst_rows[4][5] = Txt("")
    /\ lst_result.count = 3

\* C23, a second state: a floor whose type has no compound structure has one
\* row with blank material and thickness.
C23_BlankRow ==
    /\ lst_pc = "done"
    /\ \E j \in 1..Len(lst_elements) :
          /\ lst_elements[j].cls = "Floor"
          /\ ~HasCompoundStructure(lst_elements[j])
          /\ Cardinality(RowsOfElement(lst_elements[j])) = 1


====
